---- MODULE Spec2Model ----
(***************************************************************************)
(* Model of the AURA incident commander's orchestration core:             *)
(*   - the HITL approval gate   (middleware/hitlController.js, stored in   *)
(*     middleware/piiRedactor.js),                                         *)
(*   - the event bus            (index.js pushEvent),                      *)
(*   - the alarm flow           (handlers/monitorAgent.js, ReasoningAgent, *)
(*     HealAgent.heal),                                                    *)
(*   - the supervisor loop      (handlers/healAgent.js HealAgent.run),     *)
(*   - the /simulate flow       (index.js revision 3, ReasoningAgentV2,    *)
(*     both revisions of MultiCloudHealer, EnterpriseSecurity deny-list),  *)
(*   - the fallback planner     (clients/amazonQClient.js),                *)
(*   - the audit chain          (audit/logger.js).                         *)
(* Each subsystem has its own specification over the same variables.       *)
(***************************************************************************)
EXTENDS Integers, Sequences, FiniteSets, TLC

\* ------------------------------------------------------------------------
\* Bounds of the model
\* ------------------------------------------------------------------------
MaxRequests == 2
MaxClockSteps == 5
MaxOperatorCalls == 2
ClockStepMs == 100000
MaxAlarms == 2
MaxRuns == 2
MaxSimulations == 1
MaxAnalyses == 2
MaxEntries == 3
MaxTamperings == 2
MaxHeals == 1
MaxApproves == 2
MaxPushes == 3
MaxGoals == 2

\* Inputs
\* const incidentId = `incident-${Date.now()}`
IncidentId(t) == <<"incident", t>>
Incidents == {IncidentId(0), IncidentId(ClockStepMs)}
Plans == {"RESTART_LAMBDA", "ROLLBACK_LAMBDA_VERSION"}

VARIABLES
  hitlMode,          \* HITLController.mode
  now,               \* Date.now()
  pendingApprovals,  \* HITLController.pendingApprovals (Map)
  waiters,           \* the promises returned by requestApproval, in call order
  operatorCalls,     \* number of /approve and /deny requests served
  events,            \* the in-memory event log of index.js
  alarms,            \* the handleAlarm calls, in arrival order
  healAgentRevision, \* which revision of handlers/healAgent.js is loaded
  runs,              \* the HealAgent.run calls (supervisor loop), in call order
  simulations,       \* the POST /simulate requests (revision 3 of index.js)
  healerRevision,    \* which revision of agents/MultiCloudHealer.js is loaded
  chain,             \* AuditLogger.chain
  tamperings,        \* the <<index, field>> of stored entries written from outside log()
  analyses,          \* the AmazonQClient.analyzeIncident calls, in call order
  heals,             \* the AgentFactory.getHealAgent(provider).heal(...) calls
  pendingActions,    \* pendingActions (Map) of handlers/reasoningAgent.js
  approveCalls,      \* the POST /approve/:incidentId requests of that revision
  executed,          \* healAgent.execute calls per incident id since its decision was stored
  auditLog,          \* auditLog (array) of that revision
  server,            \* the HTTP server: "listening", "closing" (server.close called), "exited"
  goals              \* the handleGoal calls of orchestrator.js, in call order

vars == <<hitlMode, now, pendingApprovals, waiters, operatorCalls, events,
          alarms, healAgentRevision, runs, simulations, healerRevision,
          chain, tamperings, analyses, heals, pendingActions, approveCalls,
          executed, auditLog, server, goals>>

\* ------------------------------------------------------------------------
\* Event bus
\* ------------------------------------------------------------------------
EVENTS_MAX == 3000

Event(source, type, detail) == [source |-> source, type |-> type, detail |-> detail]

pushEvent_evictsNewest(log, ev) ==
  IF Len(log) + 1 > EVENTS_MAX THEN Append(SubSeq(log, 1, Len(log) - 1), ev)
  ELSE Append(log, ev)

\* events.push(entry); if (events.length > EVENTS_MAX) events.shift();
pushEvent(log, ev) ==
  LET pushed == Append(log, ev)
  IN IF Len(pushed) > EVENTS_MAX THEN Tail(pushed) ELSE pushed

\* ------------------------------------------------------------------------
\* Clock
\* ------------------------------------------------------------------------
AdvanceClock ==
  /\ now + ClockStepMs <= MaxClockSteps * ClockStepMs
  /\ now' = now + ClockStepMs
  /\ UNCHANGED <<hitlMode, pendingApprovals, waiters, operatorCalls, events, alarms, healAgentRevision, runs, simulations, healerRevision, chain, tamperings, analyses,
                 heals, pendingActions, approveCalls, executed, auditLog, server, goals>>

\* ------------------------------------------------------------------------
\* Approval gate (HITLController)
\* ------------------------------------------------------------------------
APPROVAL_TIMEOUT_MS == 300000

NoApproval == [status |-> "absent"]      \* Map.get(incidentId) === undefined
NoDecision == [settled |-> FALSE]        \* promise not yet resolved

AutoDecision     == [settled |-> TRUE, approved |-> TRUE,  auto |-> TRUE,  timeout |-> FALSE]
ApprovedDecision == [settled |-> TRUE, approved |-> TRUE,  auto |-> FALSE, timeout |-> FALSE]
DeniedDecision   == [settled |-> TRUE, approved |-> FALSE, auto |-> FALSE, timeout |-> FALSE]
TimeoutDecision  == [settled |-> TRUE, approved |-> FALSE, auto |-> FALSE, timeout |-> TRUE]

WaiterIds == 1..Len(waiters)
Waiting(w) == waiters[w].interval
Resolved(w) == waiters[w].decision.settled
WindowElapsed(w) == now - waiters[w].created > APPROVAL_TIMEOUT_MS

\* this.pendingApprovals.set(incidentId, {plan, timestamp: Date.now(), status: 'pending'})
StorePending(map, incidentId, plan, t) ==
  [map EXCEPT ![incidentId] = [plan |-> plan, timestamp |-> t, status |-> "pending"]]

NewWaiter(incidentId, plan, t) ==
  [incidentId |-> incidentId, plan |-> plan, created |-> t,
   interval |-> TRUE, decision |-> NoDecision, resolves |-> 0,
   inWindowCall |-> FALSE, lateCall |-> FALSE, firstCall |-> "none"]

requestApproval_alwaysWaits(incidentId, plan) ==
  /\ Len(waiters) < MaxRequests
  /\ pendingApprovals' = StorePending(pendingApprovals, incidentId, plan, now)
  /\ waiters' = Append(waiters, NewWaiter(incidentId, plan, now))
  /\ UNCHANGED <<hitlMode, now, operatorCalls, events, alarms, healAgentRevision, runs, simulations,
                 healerRevision, chain, tamperings, analyses, heals, pendingActions, approveCalls, executed, auditLog, server, goals>>

requestApproval(incidentId, plan) ==
  /\ Len(waiters) < MaxRequests
  /\ IF hitlMode = "autonomous"
       THEN /\ waiters' = Append(waiters,
                 [NewWaiter(incidentId, plan, now) EXCEPT
                    !.interval = FALSE, !.decision = AutoDecision, !.resolves = 1])
            /\ UNCHANGED pendingApprovals
       ELSE /\ pendingApprovals' = StorePending(pendingApprovals, incidentId, plan, now)
            /\ waiters' = Append(waiters, NewWaiter(incidentId, plan, now))
  /\ UNCHANGED <<hitlMode, now, operatorCalls, events, alarms, healAgentRevision, runs, simulations, healerRevision, chain, tamperings, analyses,
                 heals, pendingActions, approveCalls, executed, auditLog, server, goals>>

\* clearInterval(checkInterval); resolve(decision)
Settle(w, decision) ==
  [waiters EXCEPT ![w].interval = FALSE,
                  ![w].decision = IF waiters[w].decision.settled
                                    THEN waiters[w].decision ELSE decision,
                  ![w].resolves = waiters[w].resolves + 1]

PollResult_noTimeout(w) ==
  LET approval == pendingApprovals[waiters[w].incidentId]
  IN IF approval = NoApproval THEN waiters
     ELSE IF approval.status = "approved" THEN Settle(w, ApprovedDecision)
     ELSE IF approval.status = "denied" THEN Settle(w, DeniedDecision)
     ELSE waiters

\* One firing of the setInterval callback of waiter w.
PollResult(w) ==
  LET approval == pendingApprovals[waiters[w].incidentId]
  IN IF approval = NoApproval THEN waiters
     ELSE IF approval.status = "approved" THEN Settle(w, ApprovedDecision)
     ELSE IF approval.status = "denied" THEN Settle(w, DeniedDecision)
     ELSE IF now - approval.timestamp > APPROVAL_TIMEOUT_MS THEN Settle(w, TimeoutDecision)
     ELSE waiters

Poll(w) ==
  /\ Waiting(w)
  /\ waiters' = PollResult(w)
  /\ UNCHANGED <<hitlMode, now, pendingApprovals, operatorCalls, events, alarms, healAgentRevision, runs, simulations, healerRevision, chain, tamperings, analyses,
                 heals, pendingActions, approveCalls, executed, auditLog, server, goals>>

\* approve(incidentId) / deny(incidentId) of the controller
SetStatus(map, incidentId, status) ==
  IF map[incidentId] = NoApproval THEN map
  ELSE [map EXCEPT ![incidentId].status = status]

approve(map, incidentId) == SetStatus(map, incidentId, "approved")
deny(map, incidentId) == SetStatus(map, incidentId, "denied")

\* Bookkeeping: which waiting callers saw an operator call inside/after their
\* window, and which status the first call on their request set
NoteCall(incidentId, status) ==
  [w \in WaiterIds |->
     IF Waiting(w) /\ waiters[w].incidentId = incidentId
       THEN LET first == IF waiters[w].firstCall = "none" THEN status
                         ELSE waiters[w].firstCall
            IN IF WindowElapsed(w)
                 THEN [waiters[w] EXCEPT !.lateCall = TRUE, !.firstCall = first]
                 ELSE [waiters[w] EXCEPT !.inWindowCall = TRUE, !.firstCall = first]
       ELSE waiters[w]]

\* app.post('/approve/:incidentId')
PostApprove(incidentId) ==
  /\ operatorCalls < MaxOperatorCalls
  /\ operatorCalls' = operatorCalls + 1
  /\ pendingApprovals' = approve(pendingApprovals, incidentId)
  /\ waiters' = NoteCall(incidentId, "approved")
  /\ events' = pushEvent(events, Event("HITL", "action.approved", incidentId))
  /\ UNCHANGED <<hitlMode, now, alarms, healAgentRevision, runs, simulations, healerRevision, chain, tamperings, analyses,
                 heals, pendingActions, approveCalls, executed, auditLog, server, goals>>

\* app.post('/deny/:incidentId')
PostDeny(incidentId) ==
  /\ operatorCalls < MaxOperatorCalls
  /\ operatorCalls' = operatorCalls + 1
  /\ pendingApprovals' = deny(pendingApprovals, incidentId)
  /\ waiters' = NoteCall(incidentId, "denied")
  /\ events' = pushEvent(events, Event("HITL", "action.denied", incidentId))
  /\ UNCHANGED <<hitlMode, now, alarms, healAgentRevision, runs, simulations, healerRevision, chain, tamperings, analyses,
                 heals, pendingActions, approveCalls, executed, auditLog, server, goals>>

GateIdle ==
  /\ pendingApprovals = [i \in Incidents |-> NoApproval]
  /\ waiters = <<>>
  /\ operatorCalls = 0

AlarmIdle ==
  /\ alarms = <<>>
  /\ healAgentRevision = "heal"

SupervisorIdle == runs = <<>>

SimulateIdle ==
  /\ simulations = <<>>
  /\ healerRevision = 1

AuditIdle ==
  /\ chain = <<>>
  /\ tamperings = {}

PlannerIdle == analyses = <<>>

FactoryIdle == heals = <<>>

NoPendingAction == [status |-> "absent"]     \* pendingActions.get(id) === undefined

CopilotIdle ==
  /\ pendingActions = [i \in Incidents |-> NoPendingAction]
  /\ approveCalls = <<>>
  /\ executed = [i \in Incidents |-> 0]
  /\ auditLog = <<>>

\* app.listen(PORT, ...) has returned
ServerIdle == server = "listening"

\* no POST /goal has been served
DeployIdle == goals = <<>>

InitGate ==
  /\ hitlMode \in {"autonomous", "copilot"}
  /\ now = 0
  /\ events = <<>>
  /\ GateIdle
  /\ AlarmIdle
  /\ SupervisorIdle
  /\ SimulateIdle
  /\ AuditIdle
  /\ PlannerIdle
  /\ FactoryIdle
  /\ CopilotIdle
  /\ ServerIdle
  /\ DeployIdle

NextGate ==
  \/ AdvanceClock
  \/ \E i \in Incidents, p \in Plans : requestApproval(i, p)
  \/ \E w \in WaiterIds : Poll(w)
  \/ \E i \in Incidents : PostApprove(i)
  \/ \E i \in Incidents : PostDeny(i)

SpecGate == InitGate /\ [][NextGate]_vars

\* requests and operator calls served within one tick of the clock
NextGateTick ==
  \/ \E i \in Incidents, p \in Plans : requestApproval(i, p)
  \/ \E w \in WaiterIds : Poll(w)
  \/ \E i \in Incidents : PostApprove(i)
  \/ \E i \in Incidents : PostDeny(i)

SpecGateTick == InitGate /\ [][NextGateTick]_vars

\* ------------------------------------------------------------------------
\* Claims about the approval gate (specification SpecGate)
\* ------------------------------------------------------------------------
WaitingFor(incidentId) == {w \in WaiterIds : Waiting(w) /\ waiters[w].incidentId = incidentId}

\* C2: at most one approval request is pending per incident id; a second
\* requestApproval issued while one is pending fails and leaves the first
\* pending request (plan, timestamp, status) unchanged.
C2_OnePendingPerIncident ==
  \A w \in WaiterIds :
    Waiting(w) =>
      /\ WaitingFor(waiters[w].incidentId) = {w}
      /\ pendingApprovals[waiters[w].incidentId].plan = waiters[w].plan
      /\ pendingApprovals[waiters[w].incidentId].timestamp = waiters[w].created

\* C3: in copilot mode a request that received neither approve nor deny within
\* its timeout window resolves to the non-approved TIMED_OUT decision, exactly once.
C3_UndecidedResolvesTimedOutOnce ==
  \A w \in WaiterIds :
    (hitlMode = "copilot" /\ Resolved(w) /\ ~waiters[w].inWindowCall) =>
      (waiters[w].decision = TimeoutDecision /\ waiters[w].resolves = 1)

\* C4: an approve or deny arriving after the timeout window of a request has
\* elapsed is a no-op: the waiter's decision is TIMED_OUT.
C4_LateDecisionIsNoOp ==
  \A w \in WaiterIds :
    (waiters[w].lateCall /\ Resolved(w)) => waiters[w].decision.timeout

\* C5: approve/deny for an incident with no pending request changes neither
\* the registry, nor any decision, nor the event log.
DecisionsOf(ws) == [w \in DOMAIN ws |-> ws[w].decision]

C5_NoPendingCallIsNoOp ==
  [][\A i \in Incidents :
       ((PostApprove(i) \/ PostDeny(i)) /\ WaitingFor(i) = {}) =>
          /\ pendingApprovals' = pendingApprovals
          /\ DecisionsOf(waiters') = DecisionsOf(waiters)
          /\ events' = events]_vars

\* C6: once a request has resolved, the registry holds no entry for its incident.
C6_ResolvedRequestDeleted ==
  \A w \in WaiterIds :
    (Resolved(w) /\ ~waiters[w].decision.auto /\ WaitingFor(waiters[w].incidentId) = {}) =>
      pendingApprovals[waiters[w].incidentId] = NoApproval


\* ------------------------------------------------------------------------
\* Alarm flow: handleAlarm -> ReasoningAgent.analyze -> HealAgent.heal
\* ------------------------------------------------------------------------
\* an absent (or empty) AlarmName
Undefined == <<>>
NoAnalysis == [incidentId |-> <<>>]

\* Alarm names as sequences of words; String.includes(word) is word membership.
AlarmNames == {<<"High", "Error", "Alarm">>, <<"Critical", "Cpu">>,
               <<"Warning", "Disk">>, <<"Latency", "Drift">>}

includes(name, word) ==
  IF name = Undefined THEN FALSE ELSE \E k \in 1..Len(name) : name[k] = word

\* snsPayload: wrapped in an SNS Message (which may fail JSON.parse) or direct
Payloads ==
  {p \in [wrapped : BOOLEAN, parses : BOOLEAN, AlarmName : AlarmNames \cup {Undefined}] :
     /\ (~p.wrapped => p.parses)
     /\ (~p.parses => p.AlarmName = Undefined)}

determineSeverity(alarmData) ==
  IF includes(alarmData.AlarmName, "Critical") THEN "critical"
  ELSE IF includes(alarmData.AlarmName, "Error") THEN "high"
  ELSE IF includes(alarmData.AlarmName, "Warning") THEN "medium"
  ELSE "low"

determineRootCause(alarmData) ==
  IF includes(alarmData.AlarmName, "Error") THEN "Application error spike detected"
  ELSE IF includes(alarmData.AlarmName, "Memory") THEN "Memory usage exceeded threshold"
  ELSE IF includes(alarmData.AlarmName, "CPU") THEN "CPU utilization high"
  ELSE IF includes(alarmData.AlarmName, "Latency") THEN "Response latency increased"
  ELSE IF includes(alarmData.AlarmName, "Timeout") THEN "Request timeout detected"
  ELSE "System anomaly detected"

getRecommendedAction(alarmData) ==
  LET severity == determineSeverity(alarmData)
  IN IF severity = "critical" THEN "Scale resources, investigate logs, prepare rollback"
     ELSE IF severity = "high" THEN "Increase capacity, monitor metrics, check application"
     ELSE IF severity = "medium" THEN "Review system state, optimize resources, monitor"
     ELSE "Monitor situation, prepare contingency plan"

Analysis(alarmData, incidentId) ==
  [incidentId |-> incidentId,
   alarmName |-> IF alarmData.AlarmName = Undefined THEN <<"Unknown">> ELSE alarmData.AlarmName,
   severity |-> determineSeverity(alarmData),
   rootCause |-> determineRootCause(alarmData),
   recommendedAction |-> getRecommendedAction(alarmData)]

RemediationStep(type, resource, action) == [type |-> type, resource |-> resource, action |-> action]

\* HealAgent.executeRemediation (heal revision)
executeRemediation(analysis) ==
  LET actions ==
        IF analysis.severity = "critical" THEN
          << RemediationStep("scale", "compute", "Scale up to 200%"),
             RemediationStep("failover", "database", "Activate standby"),
             RemediationStep("restart", "services", "Restart affected services") >>
        ELSE IF analysis.severity = "high" THEN
          << RemediationStep("scale", "compute", "Scale up to 150%"),
             RemediationStep("optimize", "cache", "Clear and rebuild cache") >>
        ELSE IF analysis.severity = "medium" THEN
          << RemediationStep("monitor", "system", "Increase monitoring frequency"),
             RemediationStep("optimize", "queries", "Optimize slow queries") >>
        ELSE << RemediationStep("monitor", "system", "Continue monitoring") >>
  IN [incidentId |-> analysis.incidentId, status |-> "healed", actionsExecuted |-> actions]

NoRemediation == [status |-> "none", actionsExecuted |-> <<>>]

PushAll(log, evs) ==
  IF Len(evs) = 0 THEN log
  ELSE IF Len(evs) = 1 THEN pushEvent(log, evs[1])
  ELSE IF Len(evs) = 2 THEN pushEvent(pushEvent(log, evs[1]), evs[2])
  ELSE IF Len(evs) = 3 THEN pushEvent(pushEvent(pushEvent(log, evs[1]), evs[2]), evs[3])
  ELSE IF Len(evs) = 4 THEN
    pushEvent(pushEvent(pushEvent(pushEvent(log, evs[1]), evs[2]), evs[3]), evs[4])
  ELSE pushEvent(pushEvent(pushEvent(pushEvent(pushEvent(log, evs[1]), evs[2]), evs[3]), evs[4]), evs[5])

\* handleAlarm up to its first suspension: parse, create the incident, run
\* ReasoningAgent.analyze and the synchronous part of HealAgent.heal.
handleAlarm(snsPayload) ==
  /\ Len(alarms) < MaxAlarms
  /\ LET received == Event("MonitorAgent", "alarm.received", "SNS message received")
     IN IF ~snsPayload.parses
          THEN \* JSON.parse throws: outer catch pushes the error and rethrows
               /\ events' = PushAll(events, << received,
                                Event("MonitorAgent", "error", "JSON.parse") >>)
               /\ alarms' = Append(alarms,
                     [pc |-> "rejected", incidentId |-> Undefined, alarmName |-> Undefined,
                      analysis |-> NoAnalysis, remediation |-> NoRemediation])
          ELSE LET alarmData == [AlarmName |-> snsPayload.AlarmName]
                   alarmName == IF alarmData.AlarmName = Undefined
                                  THEN <<"UnknownAlarm">> ELSE alarmData.AlarmName
                   incidentId == IncidentId(now)
                   analysis == Analysis(alarmData, incidentId)
                   analysed == << received,
                                  Event("MonitorAgent", "alarm.parsed", alarmName),
                                  Event("ReasoningAgent", "analysis.started", analysis.alarmName),
                                  Event("ReasoningAgent", "analysis.completed", analysis) >>
               IN IF healAgentRevision = "heal"
                    THEN /\ events' = PushAll(events, Append(analysed,
                                Event("HealAgent", "healing.started", incidentId)))
                         /\ alarms' = Append(alarms,
                               [pc |-> "healing", incidentId |-> incidentId,
                                alarmName |-> alarmName, analysis |-> analysis,
                                remediation |-> executeRemediation(analysis)])
                    ELSE \* the supervisor revision has no heal(): TypeError, caught by analyze
                         /\ events' = PushAll(events, Append(analysed,
                                Event("ReasoningAgent", "warning",
                                      "Healing skipped: healAgent.heal is not a function")))
                         /\ alarms' = Append(alarms,
                               [pc |-> "returning", incidentId |-> incidentId,
                                alarmName |-> alarmName, analysis |-> analysis,
                                remediation |-> NoRemediation])
  /\ UNCHANGED <<now, hitlMode, pendingApprovals, waiters, operatorCalls, healAgentRevision, runs, simulations, healerRevision, chain, tamperings, analyses,
                 heals, pendingActions, approveCalls, executed, auditLog, server, goals>>

\* HealAgent.heal after executeRemediation: healing.completed, then generateReport
\* (writing the report file may fail; the error is swallowed).
healCompleted(a, reportWritten) ==
  /\ alarms[a].pc = "healing"
  /\ events' = PushAll(events,
        << Event("HealAgent", "healing.completed", alarms[a].remediation) >> \o
        (IF reportWritten
           THEN << Event("HealAgent", "report.generated", "incident-report") >>
           ELSE <<>>))
  /\ alarms' = [alarms EXCEPT ![a].pc = "returning"]
  /\ UNCHANGED <<now, hitlMode, pendingApprovals, waiters, operatorCalls, healAgentRevision, runs, simulations, healerRevision, chain, tamperings, analyses,
                 heals, pendingActions, approveCalls, executed, auditLog, server, goals>>

\* analyze returns the analysis and handleAlarm's promise fulfils
alarmHandled_lost(a) ==
  /\ alarms[a].pc = "returning"
  /\ alarms' = [alarms EXCEPT ![a].pc = "lost"]
  /\ UNCHANGED <<now, hitlMode, pendingApprovals, waiters, operatorCalls, events, healAgentRevision, runs, simulations, healerRevision,
                 chain, tamperings, analyses, heals, pendingActions, approveCalls, executed, auditLog, server, goals>>

alarmHandled(a) ==
  /\ alarms[a].pc = "returning"
  /\ alarms' = [alarms EXCEPT ![a].pc = "done"]
  /\ UNCHANGED <<now, hitlMode, pendingApprovals, waiters, operatorCalls, events, healAgentRevision, runs, simulations, healerRevision, chain, tamperings, analyses,
                 heals, pendingActions, approveCalls, executed, auditLog, server, goals>>

\* The alarm flow reads the clock only for the incident id: one tick is left.
InitAlarm ==
  /\ hitlMode \in {"autonomous", "copilot"}
  /\ now = (MaxClockSteps - 1) * ClockStepMs
  /\ events = <<>>
  /\ GateIdle
  /\ alarms = <<>>
  /\ healAgentRevision \in {"heal", "supervisor"}
  /\ SupervisorIdle
  /\ SimulateIdle
  /\ AuditIdle
  /\ PlannerIdle
  /\ FactoryIdle
  /\ CopilotIdle
  /\ ServerIdle
  /\ DeployIdle

NextAlarm ==
  \/ AdvanceClock
  \/ \E p \in Payloads : handleAlarm(p)
  \/ \E a \in 1..Len(alarms), reportWritten \in BOOLEAN : healCompleted(a, reportWritten)
  \/ \E a \in 1..Len(alarms) : alarmHandled(a)

SpecAlarm == InitAlarm /\ [][NextAlarm]_vars

\* The continuations of an alarm flow are promise reactions and file-system
\* callbacks: once queued they run. The clock is read only for the incident
\* id and stands still here.
InitAlarmLive ==
  /\ InitAlarm
  /\ hitlMode = "copilot"

NextAlarmLive ==
  \/ \E p \in Payloads : handleAlarm(p)
  \/ \E a \in 1..Len(alarms), reportWritten \in BOOLEAN : healCompleted(a, reportWritten)
  \/ \E a \in 1..Len(alarms) : alarmHandled(a)

SpecAlarmLive ==
  /\ InitAlarmLive
  /\ [][NextAlarmLive]_vars
  /\ WF_vars(\E a \in 1..Len(alarms), reportWritten \in BOOLEAN :
               healCompleted(a, reportWritten))
  /\ WF_vars(\E a \in 1..Len(alarms) : alarmHandled(a))

\* C1: in copilot mode no remediation action is executed for an incident unless
\* the approval gate returned an approved decision for that incident.
ApprovedByGate(incidentId) ==
  \E w \in WaiterIds : waiters[w].incidentId = incidentId /\ waiters[w].decision.settled
                       /\ waiters[w].decision.approved

C1_NoExecutionWithoutApproval ==
  hitlMode = "copilot" =>
    \A a \in 1..Len(alarms) :
      Len(alarms[a].remediation.actionsExecuted) > 0 => ApprovedByGate(alarms[a].incidentId)

\* ------------------------------------------------------------------------
\* Supervisor loop: HealAgent.run (supervisor revision of handlers/healAgent.js)
\* ------------------------------------------------------------------------
playbook == {"RESTART_LAMBDA", "INCREASE_LAMBDA_TIMEOUT",
             "INCREASE_LAMBDA_MEMORY", "ROLLBACK_LAMBDA_VERSION"}

planB_restart == "RESTART_LAMBDA"

\* const planB = 'ROLLBACK_LAMBDA_VERSION'
planB == "ROLLBACK_LAMBDA_VERSION"

\* remediation commands a caller may pass, one of them not in the playbook
Commands == playbook \cup {"SCALE_UP"}
Targets == {"fn-orders", "fn-billing"}

NoResult == [settled |-> FALSE]

emit_newestFirst(run, type, detail) ==
  [run EXCEPT !.emitted = <<[type |-> type, detail |-> detail]>> \o run.emitted]

\* this.emit(type, detail)
emit(run, type, detail) ==
  [run EXCEPT !.emitted = Append(run.emitted, [type |-> type, detail |-> detail])]

\* the playbook function is invoked for (command, target)
invoke(run, command, target) ==
  [run EXCEPT !.dispatched = Append(run.dispatched, [command |-> command, target |-> target])]

\* healing.completed for a first-try success
completedHealed(run) ==
  [incidentId |-> run.incident_id, status |-> "healed",
   actionsExecuted |-> << run.remediation_command >>]

\* healing.completed after the correction
completedAfterCorrection(run) ==
  [incidentId |-> run.incident_id, status |-> "healed_after_correction",
   actionsExecuted |-> << run.remediation_command, planB >>]

\* run() up to the first await: healing.started, then executeAction(primary)
\* either throws 'Unknown plan' or emits healing.step and calls the playbook.
runStart(remediation_command, target_resource_id) ==
  /\ Len(runs) < MaxRuns
  /\ LET fresh == [pc |-> "start", incident_id |-> IncidentId(now),
                   remediation_command |-> remediation_command,
                   target_resource_id |-> target_resource_id,
                   emitted |-> <<>>, dispatched |-> <<>>,
                   healthy |-> FALSE, verifications |-> 0,
                   healthCheck |-> "none", result |-> NoResult]
         started == emit(fresh, "healing.started", target_resource_id)
     IN IF remediation_command \notin playbook
          THEN runs' = Append(runs, [started EXCEPT !.pc = "threw"])
          ELSE runs' = Append(runs,
                 [invoke(emit(started, "healing.step", remediation_command),
                         remediation_command, target_resource_id)
                    EXCEPT !.pc = "executing"])
  /\ UNCHANGED <<now, events, hitlMode, pendingApprovals, waiters, operatorCalls, alarms, healAgentRevision, simulations, healerRevision, chain, tamperings, analyses,
                 heals, pendingActions, approveCalls, executed, auditLog, server, goals>>

\* the primary action settles (a failed Lambda call is swallowed by restartLambda,
\* a thrown action by executeAction's catch); the metrics are then stable or not.
\* run() emits healing.verification and sleeps 1500 ms.
primarySettled(r, metricsStable) ==
  /\ runs[r].pc = "executing"
  /\ runs' = [runs EXCEPT ![r] =
        [emit(runs[r], "healing.verification", "Supervisor verifying metric stability...")
           EXCEPT !.pc = "verifying", !.healthy = metricsStable]]
  /\ UNCHANGED <<now, events, hitlMode, pendingApprovals, waiters, operatorCalls, alarms, healAgentRevision, simulations, healerRevision, chain, tamperings, analyses,
                 heals, pendingActions, approveCalls, executed, auditLog, server, goals>>

\* after the sleep: healthCheck, then either completion or the correction phase
verified(r) ==
  /\ runs[r].pc = "verifying"
  /\ LET run == [runs[r] EXCEPT !.healthCheck = IF runs[r].healthy THEN "passed" ELSE "failed",
                                !.verifications = runs[r].verifications + 1]
     IN IF run.healthy
          THEN runs' = [runs EXCEPT ![r] =
                 [emit(run, "healing.completed", completedHealed(run))
                    EXCEPT !.pc = "done",
                           !.result = [settled |-> TRUE, success |-> TRUE,
                                       action |-> run.remediation_command,
                                       correction |-> FALSE]]]
          ELSE runs' = [runs EXCEPT ![r] =
                 [invoke(emit(emit(run, "healing.correction", run.remediation_command),
                              "healing.step", planB),
                         planB, run.target_resource_id)
                    EXCEPT !.pc = "correcting"]]
  /\ UNCHANGED <<now, events, hitlMode, pendingApprovals, waiters, operatorCalls, alarms, healAgentRevision, simulations, healerRevision, chain, tamperings, analyses,
                 heals, pendingActions, approveCalls, executed, auditLog, server, goals>>

AfterCorrection_reverify == "verifying"

\* where run() continues once the Plan B action has settled
AfterCorrection == "done"

\* Plan B settles (metrics stable or not; run() does not look): healing.completed
correctionSettled(r, metricsStable) ==
  /\ runs[r].pc = "correcting"
  /\ runs' = [runs EXCEPT ![r] =
        [emit(runs[r], "healing.completed", completedAfterCorrection(runs[r]))
           EXCEPT !.pc = AfterCorrection,
                  !.healthy = metricsStable,
                  !.result = [settled |-> TRUE, success |-> TRUE,
                              action |-> planB, correction |-> TRUE]]]
  /\ UNCHANGED <<now, events, hitlMode, pendingApprovals, waiters, operatorCalls, alarms, healAgentRevision, simulations, healerRevision, chain, tamperings, analyses,
                 heals, pendingActions, approveCalls, executed, auditLog, server, goals>>

InitSupervisor ==
  /\ hitlMode \in {"autonomous", "copilot"}
  /\ now = 0
  /\ events = <<>>
  /\ GateIdle
  /\ AlarmIdle
  /\ SupervisorIdle
  /\ SimulateIdle
  /\ AuditIdle
  /\ PlannerIdle
  /\ FactoryIdle
  /\ CopilotIdle
  /\ ServerIdle
  /\ DeployIdle

NextSupervisor ==
  \/ \E c \in Commands, t \in Targets : runStart(c, t)
  \/ \E r \in 1..Len(runs), metricsStable \in BOOLEAN : primarySettled(r, metricsStable)
  \/ \E r \in 1..Len(runs) : verified(r)
  \/ \E r \in 1..Len(runs), metricsStable \in BOOLEAN : correctionSettled(r, metricsStable)

SpecSupervisor == InitSupervisor /\ [][NextSupervisor]_vars

\* ------------------------------------------------------------------------
\* Claims about the supervisor loop (specification SpecSupervisor)
\* ------------------------------------------------------------------------
CommandsOf(dispatched) == [k \in 1..Len(dispatched) |-> dispatched[k].command]
Recorded(run) == run.emitted[Len(run.emitted)].detail.actionsExecuted

\* C7: the supervisor loop executes at most two actions per incident (the
\* primary plan and at most one fallback) and verifies at most once.
C7_AtMostTwoActions ==
  \A r \in 1..Len(runs) : Len(runs[r].dispatched) <= 2 /\ runs[r].verifications <= 1

C7_TwoActionsExecuted ==
  \E r \in 1..Len(runs) :
    runs[r].pc = "done" /\ Len(runs[r].dispatched) = 2 /\ runs[r].verifications = 1

\* C8: when the fallback action leaves the metrics unstable (its verification
\* fails) the run is not reported as healed; healed-after-correction is
\* reported only when the fallback's verification passes.
C8_FailedFallbackNotResolved ==
  \A r \in 1..Len(runs) :
    (runs[r].pc = "done" /\ runs[r].result.correction /\ ~runs[r].healthy) =>
      ~runs[r].result.success

\* C9: a fallback is dispatched only after the primary verification failed, it
\* is ROLLBACK on the same target, the recorded actions are exactly
\* [primary, ROLLBACK]; a passed verification means exactly the primary was
\* executed and recorded.
C9_FallbackIsRollbackOnSameTarget ==
  \A r \in 1..Len(runs) :
    LET run == runs[r]
        primary == [command |-> run.remediation_command, target |-> run.target_resource_id]
        rollback == [command |-> "ROLLBACK_LAMBDA_VERSION", target |-> run.target_resource_id]
    IN /\ Len(run.dispatched) > 1 =>
            (run.healthCheck = "failed" /\ run.dispatched = << primary, rollback >>)
       /\ (run.pc = "done" /\ run.healthCheck = "failed") =>
            (run.dispatched = << primary, rollback >>
             /\ Recorded(run) = CommandsOf(run.dispatched))
       /\ (run.pc = "done" /\ run.healthCheck = "passed") =>
            (run.dispatched = << primary >> /\ Recorded(run) = << run.remediation_command >>)

C9_RollbackAfterFailedRestart ==
  \E r \in 1..Len(runs) :
    /\ runs[r].pc = "done"
    /\ runs[r].healthCheck = "failed"
    /\ Recorded(runs[r]) = << "RESTART_LAMBDA", "ROLLBACK_LAMBDA_VERSION" >>

\* ------------------------------------------------------------------------
\* POST /simulate (index.js revision 3): ReasoningAgentV2.run, MultiCloudHealer.heal
\* ------------------------------------------------------------------------
Providers == {"aws", "AWS", "azure", "gcp", "oracle"}

toLowerCase(provider) == IF provider = "AWS" THEN "aws" ELSE provider

\* this.adapters = { aws, azure, gcp }
adapters == {"aws", "azure", "gcp"}

\* what this.model.invoke(prompt) may answer: it throws, it returns text without
\* a JSON object, text whose JSON does not parse, or a JSON object whose
\* action / confidence may be missing (0: absent)
ModelActions == {"RESTART", "SCALE_UP", "ROLLBACK", "TerminateInstances", ""}
ModelReplies ==
  {[kind |-> "throws"], [kind |-> "text"], [kind |-> "badjson"]} \cup
  [kind : {"json"}, action : ModelActions, confidence : {0, 99}]

NoPlan == [action |-> "none"]
NoHealing == [status |-> "none"]
NoResponse == [code |-> 0]

\* ReasoningAgentV2.plan: the default plan, overwritten from the model's JSON
planOf(incident, reply) ==
  LET fromModel == reply.kind = "json"
  IN [action |-> IF fromModel
                   THEN (IF reply.action = "" THEN "SCALE_UP" ELSE reply.action)
                   ELSE "RESTART",
      confidence |-> IF fromModel
                       THEN (IF reply.confidence = 0 THEN 95 ELSE reply.confidence)
                       ELSE 80,
      targetProvider |-> IF includes(incident.AlarmName, "azure") THEN "azure" ELSE "aws",
      resourceId |-> "primary-cluster"]

\* ReasoningAgentV2.validate
validate(plan) ==
  [action |-> plan.action, confidence |-> plan.confidence,
   targetProvider |-> plan.targetProvider, resourceId |-> plan.resourceId,
   validated |-> TRUE]

\* the 'Ultimate Fallback' of ReasoningAgentV2.run
emergencyPlan == [action |-> "EMERGENCY_RESTART", targetProvider |-> "aws"]

\* const { targetProvider, action, resourceId } = plan
resourceIdOf(plan) ==
  IF "resourceId" \in DOMAIN plan THEN plan.resourceId ELSE "undefined"

\* how lambda.send settles: fulfilled, or rejected with an error of that name
SendOutcomes == {"ok", "ResourceNotFoundException", "AccessDeniedException"}

\* AwsAdapter / AzureAdapter / GcpAdapter .restartService: when lambda.send
\* throws (whatever the error), revision 1 returns a failed result carrying
\* the error, revision 2 a simulated success
restartService(adapter, resourceId, sendOutcome) ==
  IF adapter = "aws"
    THEN IF sendOutcome = "ok"
           THEN [status |-> "success", provider |-> "AWS", resource |-> resourceId]
         ELSE IF healerRevision = 1
           THEN [status |-> "failed", error |-> sendOutcome]
           ELSE [status |-> "simulated_success", provider |-> "AWS",
                 resource |-> resourceId]
    ELSE IF adapter = "azure"
      THEN [status |-> "success", provider |-> "Azure", resource |-> resourceId]
      ELSE [status |-> "success", provider |-> "GCP", resource |-> resourceId]

\* AwsAdapter / AzureAdapter / GcpAdapter .scaleUp (revision 2)
scaleUp(adapter, resourceId) ==
  [status |-> "success",
   provider |-> IF adapter = "aws" THEN "AWS" ELSE IF adapter = "azure" THEN "Azure" ELSE "GCP",
   resource |-> resourceId]

\* MultiCloudHealer.getAdapter: revision 1 throws for a provider without an
\* adapter (NoAdapter), revision 2 answers the AWS adapter
NoAdapter == "none"
getAdapter(provider) ==
  IF toLowerCase(provider) \in adapters THEN toLowerCase(provider)
  ELSE IF healerRevision = 1 THEN NoAdapter ELSE "aws"

\* action.toUpperCase() and String.includes over the actions of the model
toUpperCase(action) ==
  IF action = "TerminateInstances" THEN "TERMINATEINSTANCES" ELSE action

actionIncludes(action, word) ==
  \/ action = word
  \/ action = "EMERGENCY_RESTART" /\ word = "RESTART"
  \/ action = "SCALE_UP" /\ word = "SCALE"

\* EnterpriseSecurity: the deny-list and validateAiAction (TRUE: the action
\* passes; FALSE: it throws the security veto)
BLOCKED_ACTIONS == {"DeleteDBInstance", "TerminateInstances", "DeleteBucket"}
validateAiAction(actionName) ==
  ~ \E blocked \in BLOCKED_ACTIONS : actionIncludes(actionName, blocked)

\* the route up to brain.run's first suspension (the model call), or up to the
\* emergency plan when building / invoking the graph throws
simulate(type, provider, graphThrows) ==
  /\ Len(simulations) < MaxSimulations
  /\ LET alarm == [AlarmName |-> << "Critical", type, provider >>]
         fresh == [pc |-> "planning", provider |-> provider, incident |-> alarm,
                   plan |-> NoPlan, healed |-> NoPlan, adapter |-> NoAdapter,
                   capability |-> "none", sendOutcome |-> "none",
                   result |-> NoHealing, response |-> NoResponse]
         opened == << Event("ChaosMonkey", "simulate.triggered", << type, provider >>),
                      Event("Orchestrator", "ai.handover", "Engaging AI") >>
     IN IF graphThrows
          THEN /\ simulations' = Append(simulations,
                     [fresh EXCEPT !.pc = "planned", !.plan = emergencyPlan])
               /\ events' = PushAll(events, opened)
          ELSE /\ simulations' = Append(simulations, fresh)
               /\ events' = PushAll(events, opened \o
                     << Event("ReasoningAgent", "reasoning.start", "AI Agent Activated"),
                        Event("ReasoningAgent", "ai.diagnose", "Correlating"),
                        Event("ReasoningAgent", "ai.planning", "Formulating") >>)
  /\ UNCHANGED <<now, hitlMode, pendingApprovals, waiters, operatorCalls, alarms, healAgentRevision, runs, healerRevision, chain, tamperings, analyses,
                 heals, pendingActions, approveCalls, executed, auditLog, server, goals>>

\* the model call settles: plan node, then validate node; brain.run returns
planned(s, reply) ==
  /\ simulations[s].pc = "planning"
  /\ LET plan == validate(planOf(simulations[s].incident, reply))
     IN /\ simulations' = [simulations EXCEPT ![s].pc = "planned", ![s].plan = plan]
        /\ events' = pushEvent(events, Event("ReasoningAgent", "ai.validate", plan.action))
  /\ UNCHANGED <<now, hitlMode, pendingApprovals, waiters, operatorCalls, alarms, healAgentRevision, runs, healerRevision, chain, tamperings, analyses,
                 heals, pendingActions, approveCalls, executed, auditLog, server, goals>>

Fatal(sim, message) ==
  [sim EXCEPT !.pc = "responded", !.response = [code |-> 500, error |-> message]]

\* the route's answer once heal has returned a result
responseStatus(result) == "healed"

Healed(sim, result) ==
  [sim EXCEPT !.pc = "responded", !.result = result,
              !.response = [code |-> 200, status |-> responseStatus(result),
                            plan_executed |-> sim.plan, healing_result |-> result]]

\* healer.heal({...plan, targetProvider: provider}) up to the adapter call
\* (revision 1 of MultiCloudHealer)
heal1(s, sim, initiated) ==
  LET action == sim.healed.action
      adapter == getAdapter(sim.provider)
  IN IF adapter = NoAdapter
       THEN \* getAdapter throws outside heal's try block
            /\ simulations' = [simulations EXCEPT ![s] =
                  Fatal(sim, "Unsupported Cloud Provider")]
            /\ events' = PushAll(events, << initiated,
                  Event("System", "healing.fatal", "Unsupported Cloud Provider") >>)
       ELSE IF action = "RESTART"
         THEN /\ simulations' = [simulations EXCEPT ![s] =
                    [sim EXCEPT !.pc = "healing", !.adapter = adapter,
                                !.capability = "restartService"]]
              /\ events' = pushEvent(events, initiated)
         ELSE IF action = "SCALE_UP"
           THEN \* no adapter overrides CloudAdapter.scaleUp
                /\ simulations' = [simulations EXCEPT ![s] =
                      Fatal([sim EXCEPT !.adapter = adapter, !.capability = "scaleUp"],
                            "Not Implemented")]
                /\ events' = PushAll(events, << initiated,
                      Event("MultiCloudHealer", "healing.failed", "Not Implemented"),
                      Event("System", "healing.fatal", "Not Implemented") >>)
           ELSE /\ simulations' = [simulations EXCEPT ![s] =
                      Fatal([sim EXCEPT !.adapter = adapter], "Unknown action")]
                /\ events' = PushAll(events, << initiated,
                      Event("MultiCloudHealer", "healing.failed", "Unknown action"),
                      Event("System", "healing.fatal", "Unknown action") >>)

\* the same, revision 2 of MultiCloudHealer
heal2(s, sim, initiated) ==
  LET action == sim.healed.action
      adapter == getAdapter(sim.provider)
      normalizedAction == toUpperCase(action)
  IN IF actionIncludes(normalizedAction, "RESTART") \/ normalizedAction = "EMERGENCY_RESTART"
       THEN /\ simulations' = [simulations EXCEPT ![s] =
                  [sim EXCEPT !.pc = "healing", !.adapter = adapter,
                              !.capability = "restartService"]]
            /\ events' = pushEvent(events, initiated)
       ELSE IF actionIncludes(normalizedAction, "SCALE")
         THEN /\ simulations' = [simulations EXCEPT ![s] =
                    [sim EXCEPT !.pc = "healing", !.adapter = adapter,
                                !.capability = "scaleUp"]]
              /\ events' = pushEvent(events, initiated)
         ELSE \* generic success for unknown actions
              LET result == [status |-> "success", action |-> action,
                             note |-> "Generic Handler Executed"]
              IN /\ simulations' = [simulations EXCEPT ![s] =
                       Healed([sim EXCEPT !.adapter = adapter], result)]
                 /\ events' = PushAll(events, << initiated,
                       Event("MultiCloudHealer", "healing.success", result) >>)

healStart(s) ==
  /\ simulations[s].pc = "planned"
  /\ LET sim == [simulations[s] EXCEPT
                   !.healed = [simulations[s].plan EXCEPT
                                 !.targetProvider = simulations[s].provider]]
         initiated == Event("MultiCloudHealer", "healing.initiated",
                            << sim.healed.action, sim.provider >>)
     IN IF healerRevision = 1 THEN heal1(s, sim, initiated) ELSE heal2(s, sim, initiated)
  /\ UNCHANGED <<now, hitlMode, pendingApprovals, waiters, operatorCalls, alarms, healAgentRevision, runs, healerRevision, chain, tamperings, analyses,
                 heals, pendingActions, approveCalls, executed, auditLog, server, goals>>

\* adapter.restartService settles: heal pushes healing.success and returns the
\* result, the route answers
restartSettled(s, sendOutcome) ==
  /\ simulations[s].pc = "healing"
  /\ simulations[s].capability = "restartService"
  /\ LET sim == [simulations[s] EXCEPT !.sendOutcome = sendOutcome]
         result == restartService(sim.adapter, resourceIdOf(sim.healed), sendOutcome)
     IN /\ simulations' = [simulations EXCEPT ![s] = Healed(sim, result)]
        /\ events' = pushEvent(events, Event("MultiCloudHealer", "healing.success", result))
  /\ UNCHANGED <<now, hitlMode, pendingApprovals, waiters, operatorCalls, alarms, healAgentRevision, runs, healerRevision, chain, tamperings, analyses,
                 heals, pendingActions, approveCalls, executed, auditLog, server, goals>>

\* adapter.scaleUp settles (revision 2)
scaleSettled(s) ==
  /\ simulations[s].pc = "healing"
  /\ simulations[s].capability = "scaleUp"
  /\ LET sim == simulations[s]
         result == scaleUp(sim.adapter, resourceIdOf(sim.healed))
     IN /\ simulations' = [simulations EXCEPT ![s] = Healed(sim, result)]
        /\ events' = pushEvent(events, Event("MultiCloudHealer", "healing.success", result))
  /\ UNCHANGED <<now, hitlMode, pendingApprovals, waiters, operatorCalls, alarms, healAgentRevision, runs, healerRevision, chain, tamperings, analyses,
                 heals, pendingActions, approveCalls, executed, auditLog, server, goals>>

\* app.post('/reset'): events.length = 0, then the system.reset event
PostReset ==
  /\ events' = pushEvent(<<>>, Event("Admin", "system.reset", "Audit log cleared"))
  /\ UNCHANGED <<now, hitlMode, pendingApprovals, waiters, operatorCalls, alarms, healAgentRevision, runs, simulations, healerRevision,
                 chain, tamperings, analyses, heals, pendingActions, approveCalls, executed, auditLog, server, goals>>

InitSimulate ==
  /\ hitlMode \in {"autonomous", "copilot"}
  /\ now = 0
  /\ events = <<>>
  /\ GateIdle
  /\ AlarmIdle
  /\ SupervisorIdle
  /\ simulations = <<>>
  /\ healerRevision \in {1, 2}
  /\ AuditIdle
  /\ PlannerIdle
  /\ FactoryIdle
  /\ CopilotIdle
  /\ ServerIdle
  /\ DeployIdle

NextSimulate ==
  \/ \E p \in Providers, graphThrows \in BOOLEAN : simulate("cpu", p, graphThrows)
  \/ \E s \in 1..Len(simulations), reply \in ModelReplies : planned(s, reply)
  \/ \E s \in 1..Len(simulations) : healStart(s)
  \/ \E s \in 1..Len(simulations), sendOutcome \in SendOutcomes :
        restartSettled(s, sendOutcome)
  \/ \E s \in 1..Len(simulations) : scaleSettled(s)
  \/ PostReset

SpecSimulate == InitSimulate /\ [][NextSimulate]_vars

\* C10: a FAILED result of the dispatched action is never reported as a
\* success: only SUCCESS and SIMULATED_SUCCESS results count as executed.
C10_FailedResultNotReportedHealed ==
  \A s \in 1..Len(simulations) :
    (simulations[s].pc = "responded" /\ simulations[s].result.status = "failed") =>
      /\ simulations[s].response.code # 200
      /\ \A k \in 1..Len(events) :
           events[k].type = "healing.success" => events[k].detail.status # "failed"

\* a simulation whose plan has been handed to healer.heal
Dispatched(s) == simulations[s].healed # NoPlan

\* C11: dispatch for a provider that has no registered capability fails with an
\* unsupported-provider error: no capability function is invoked, no result is
\* produced and the request ends as a failure.
C11_UnknownProviderFails ==
  \A s \in 1..Len(simulations) :
    (Dispatched(s) /\ toLowerCase(simulations[s].provider) \notin adapters) =>
      /\ simulations[s].pc = "responded"
      /\ simulations[s].adapter = NoAdapter
      /\ simulations[s].capability = "none"
      /\ simulations[s].result = NoHealing
      /\ simulations[s].response.code = 500

\* C12: dispatch for an action outside the provider's capability set fails and
\* produces no result; an action for which no capability function is selected
\* never ends with a success result.
C12_UnsupportedActionFails ==
  \A s \in 1..Len(simulations) :
    (simulations[s].pc = "responded" /\ simulations[s].capability = "none") =>
      /\ simulations[s].result = NoHealing
      /\ simulations[s].response.code = 500

\* C13: an action that matches the static deny-list is never dispatched to a
\* capability, and its veto is a hard failure of the dispatch, never another
\* result.
C13_DeniedActionIsVetoed ==
  \A s \in 1..Len(simulations) :
    (Dispatched(s) /\ ~validateAiAction(simulations[s].healed.action)) =>
      /\ simulations[s].pc = "responded"
      /\ simulations[s].capability = "none"
      /\ simulations[s].result = NoHealing
      /\ simulations[s].response.code = 500
      /\ simulations[s].response.error # "none"

\* C14: on every path, also when planning fails and the fallback plan is
\* returned, the plan handed to the dispatcher carries the validated flag.
C14_DispatchedPlanIsValidated ==
  \A s \in 1..Len(simulations) :
    Dispatched(s) =>
      /\ "validated" \in DOMAIN simulations[s].healed
      /\ simulations[s].healed.validated

\* C15: a plan is immutable after validation: action, target and provider of
\* the dispatched plan equal those of the validated plan.
C15_DispatchedEqualsValidated ==
  \A s \in 1..Len(simulations) :
    (Dispatched(s) /\ "validated" \in DOMAIN simulations[s].plan) =>
      /\ simulations[s].healed.action = simulations[s].plan.action
      /\ simulations[s].healed.resourceId = simulations[s].plan.resourceId
      /\ simulations[s].healed.targetProvider = simulations[s].plan.targetProvider

\* ------------------------------------------------------------------------
\* AmazonQClient.analyzeIncident and its rule-based fallback
\* ------------------------------------------------------------------------
FallbackNames == {<<"High", "Error", "Alarm">>, <<"Lambda", "Timeout">>,
                  <<"Lambda", "Duration">>, <<"High", "Latency", "Alarm">>,
                  <<"Invoke", "Failure">>, <<"High", "Memory">>,
                  <<"Timeout", "Error">>, <<"Memory", "Failure">>,
                  <<"Disk", "Full">>}

\* the remediation plans the prompt lets the agent choose from
PromptPlans == {"RESTART_LAMBDA", "INCREASE_LAMBDA_TIMEOUT", "INCREASE_LAMBDA_MEMORY",
                "LOG_ONLY"}

\* what client.send / the completion stream may do: reject (also on a timeout),
\* answer text without a JSON object, text whose braces do not parse, or JSON
AgentReplies ==
  {[kind |-> "throws"], [kind |-> "text"], [kind |-> "badjson"]} \cup
  [kind : {"json"}, remediation_plan : PromptPlans]

NoResultYet == [ai_provider |-> "none"]

\* the if / else-if chain of intelligentFallback, on alarmData.AlarmName || ''
remediationFor_errorFirst(alarmName) ==
  IF includes(alarmName, "Error") \/ includes(alarmName, "Failure")
    THEN "RESTART_LAMBDA"
  ELSE IF includes(alarmName, "Timeout") \/ includes(alarmName, "Duration")
    THEN "INCREASE_LAMBDA_TIMEOUT"
  ELSE IF includes(alarmName, "Memory") THEN "INCREASE_LAMBDA_MEMORY"
  ELSE "LOG_ONLY"

remediationFor(alarmName) ==
  IF includes(alarmName, "Timeout") \/ includes(alarmName, "Duration")
    THEN "INCREASE_LAMBDA_TIMEOUT"
  ELSE IF includes(alarmName, "Error") \/ includes(alarmName, "Failure")
    THEN "RESTART_LAMBDA"
  ELSE IF includes(alarmName, "Memory") THEN "INCREASE_LAMBDA_MEMORY"
  ELSE "LOG_ONLY"

intelligentFallback_byError(alarmData, errorMsg) ==
  [root_cause_analysis |-> << "AI analysis failed", errorMsg >>,
   remediation_plan |-> IF errorMsg = "send" THEN "LOG_ONLY"
                        ELSE remediationFor(alarmData.AlarmName),
   ai_provider |-> "Rule-Based Fallback"]

intelligentFallback(alarmData, errorMsg) ==
  [root_cause_analysis |-> << "AI analysis failed", errorMsg >>,
   remediation_plan |-> remediationFor(alarmData.AlarmName),
   ai_provider |-> "Rule-Based Fallback"]

\* analyzeIncident up to `await this.client.send(command)`
analyzeIncident(alarmData) ==
  /\ Len(analyses) < MaxAnalyses
  /\ analyses' = Append(analyses,
        [pc |-> "invoking", alarmData |-> alarmData, result |-> NoResultYet])
  /\ UNCHANGED <<now, events, hitlMode, pendingApprovals, waiters, operatorCalls, alarms, healAgentRevision, runs, simulations, healerRevision,
                 chain, tamperings,
                 heals, pendingActions, approveCalls, executed, auditLog, server, goals>>

\* the agent call settles: the parsed response, or the fallback from the
\* missing-JSON branch or from the catch
agentSettled(k, reply) ==
  /\ analyses[k].pc = "invoking"
  /\ LET alarmData == analyses[k].alarmData
         result ==
           IF reply.kind = "throws" THEN intelligentFallback(alarmData, "send")
           ELSE IF reply.kind = "text"
             THEN intelligentFallback(alarmData, "AI response was not valid JSON.")
           ELSE IF reply.kind = "badjson" THEN intelligentFallback(alarmData, "JSON.parse")
           ELSE [root_cause_analysis |-> << "agent" >>,
                 remediation_plan |-> reply.remediation_plan,
                 ai_provider |-> "Amazon Q"]
     IN analyses' = [analyses EXCEPT ![k].pc = "returned", ![k].result = result]
  /\ UNCHANGED <<now, events, hitlMode, pendingApprovals, waiters, operatorCalls, alarms, healAgentRevision, runs, simulations, healerRevision,
                 chain, tamperings,
                 heals, pendingActions, approveCalls, executed, auditLog, server, goals>>

InitPlanner ==
  /\ hitlMode \in {"autonomous", "copilot"}
  /\ now = 0
  /\ events = <<>>
  /\ GateIdle
  /\ AlarmIdle
  /\ SupervisorIdle
  /\ SimulateIdle
  /\ AuditIdle
  /\ PlannerIdle
  /\ FactoryIdle
  /\ CopilotIdle
  /\ ServerIdle
  /\ DeployIdle

NextPlanner ==
  \/ \E n \in FallbackNames \cup {Undefined} : analyzeIncident([AlarmName |-> n])
  \/ \E k \in 1..Len(analyses), reply \in AgentReplies : agentSettled(k, reply)

SpecPlanner == InitPlanner /\ [][NextPlanner]_vars

\* the analyses answered by the rule-based fallback
FallbackAnswers ==
  {k \in 1..Len(analyses) : analyses[k].result.ai_provider = "Rule-Based Fallback"}

\* C16 as stated: latency or timeout names yield the increase-timeout action,
\* error or failure names the restart, memory names the increase-memory action,
\* every other name LOG_ONLY; HighErrorAlarm yields the restart.
C16_LatencyOrTimeoutCategories ==
  \A k \in FallbackAnswers :
    LET name == analyses[k].alarmData.AlarmName
        plan == analyses[k].result.remediation_plan
        slow == includes(name, "Latency") \/ includes(name, "Timeout")
        broken == includes(name, "Error") \/ includes(name, "Failure")
        memory == includes(name, "Memory")
    IN /\ slow => plan = "INCREASE_LAMBDA_TIMEOUT"
       /\ (~slow /\ broken) => plan = "RESTART_LAMBDA"
       /\ (~slow /\ ~broken /\ memory) => plan = "INCREASE_LAMBDA_MEMORY"
       /\ (~slow /\ ~broken /\ ~memory) => plan = "LOG_ONLY"
       /\ name = <<"High", "Error", "Alarm">> => plan = "RESTART_LAMBDA"

\* C16 (amended): the fallback planner takes the first matching category of the
\* alarm name: Timeout or Duration yields the increase-timeout action, Error or
\* Failure the restart, Memory the increase-memory action, every other name
\* (a name that only mentions latency included) LOG_ONLY; HighErrorAlarm yields
\* the restart.
C16_TimeoutOrDurationCategories ==
  \A k \in FallbackAnswers :
    LET name == analyses[k].alarmData.AlarmName
        plan == analyses[k].result.remediation_plan
        slow == includes(name, "Timeout") \/ includes(name, "Duration")
        broken == includes(name, "Error") \/ includes(name, "Failure")
        memory == includes(name, "Memory")
    IN /\ slow => plan = "INCREASE_LAMBDA_TIMEOUT"
       /\ (~slow /\ broken) => plan = "RESTART_LAMBDA"
       /\ (~slow /\ ~broken /\ memory) => plan = "INCREASE_LAMBDA_MEMORY"
       /\ (~slow /\ ~broken /\ ~memory) => plan = "LOG_ONLY"
       /\ name = <<"High", "Error", "Alarm">> => plan = "RESTART_LAMBDA"

C16_TimeoutBeatsError ==
  \E k \in FallbackAnswers :
    /\ analyses[k].alarmData.AlarmName = <<"Timeout", "Error">>
    /\ analyses[k].result.remediation_plan = "INCREASE_LAMBDA_TIMEOUT"

\* C17: input errors never become incident failures: a malformed alarm payload
\* still obtains a rule-based plan and no error is propagated to the caller.
C17_MalformedAlarmStillPlanned ==
  \A a \in 1..Len(alarms) :
    /\ alarms[a].pc # "rejected"
    /\ alarms[a].analysis # NoAnalysis

\* ------------------------------------------------------------------------
\* Audit chain (audit/logger.js)
\* ------------------------------------------------------------------------
\* the events handed to log(event)
AuditEvents ==
  {[type |-> "remediation", actor |-> "HealAgent", resource |-> "payment-lambda",
    action |-> "RESTART_LAMBDA", result |-> "success"],
   [type |-> "approval", actor |-> "operator", resource |-> "incident",
    action |-> "deny", result |-> "rejected"]}

\* previousHash of the first entry: '0'
Genesis == <<"0">>

\* the fields serialised by calculateHash, and all stored fields
HashedFields == {"timestamp", "event", "actor", "resource", "action", "result",
                 "previousHash"}
StoredFields == HashedFields \cup {"hash"}

\* SHA-256 over the JSON of the seven fields, taken to be collision free: the
\* digest is represented by the tuple of the serialised fields
calculateHash(entry) ==
  << entry.timestamp, entry.event, entry.actor, entry.resource, entry.action,
     entry.result, entry.previousHash >>

\* this.loadChain(): the chain starts without stored entries
loadChain == <<>>

\* this.persist(entry): the sink receives a copy, the chain is left alone
persist(c, entry) == c

\* previousHash of a new entry
lastHash_first(c) == IF Len(c) > 0 THEN c[1].hash ELSE Genesis

lastHash(c) == IF Len(c) > 0 THEN c[Len(c)].hash ELSE Genesis

log(event) ==
  /\ Len(chain) < MaxEntries
  /\ LET fields == [timestamp |-> now, event |-> event.type, actor |-> event.actor,
                    resource |-> event.resource, action |-> event.action,
                    result |-> event.result, previousHash |-> lastHash(chain)]
         entry == [timestamp |-> fields.timestamp, event |-> fields.event,
                   actor |-> fields.actor, resource |-> fields.resource,
                   action |-> fields.action, result |-> fields.result,
                   previousHash |-> fields.previousHash,
                   hash |-> calculateHash(fields)]
     IN chain' = persist(Append(chain, entry), entry)
  /\ UNCHANGED <<now, events, hitlMode, pendingApprovals, waiters, operatorCalls, alarms, healAgentRevision, runs, simulations, healerRevision,
                 tamperings, analyses,
                 heals, pendingActions, approveCalls, executed, auditLog, server, goals>>

\* verify(): the loop from i = 1 (the second entry); tamperedAt is the 0-based
\* index of the source, the chain of the model is 1-based
RECURSIVE verifyFrom(_, _)
verifyFrom(c, i) ==
  IF i > Len(c) THEN [valid |-> TRUE]
  ELSE IF c[i].previousHash # c[i - 1].hash THEN [valid |-> FALSE, tamperedAt |-> i - 1]
  ELSE IF calculateHash(c[i]) # c[i].hash THEN [valid |-> FALSE, tamperedAt |-> i - 1]
  ELSE verifyFrom(c, i + 1)

verify(c) == verifyFrom(c, 2)

\* a value of the field's type that differs from the stored one
Overwritten(field, old) ==
  IF field = "timestamp" THEN old + 1
  ELSE IF field \in {"previousHash", "hash"} THEN <<"forged">>
  ELSE "forged"

\* this.chain is a public array of plain objects: a field of the stored entry
\* at 0-based index i is overwritten from outside log()
tamper(i, field) ==
  /\ Cardinality(tamperings) < MaxTamperings
  /\ i \in 0..(Len(chain) - 1)
  /\ << i, field >> \notin tamperings
  /\ chain' = [chain EXCEPT ![i + 1][field] = Overwritten(field, @)]
  /\ tamperings' = tamperings \cup {<< i, field >>}
  /\ UNCHANGED <<now, events, hitlMode, pendingApprovals, waiters, operatorCalls, alarms, healAgentRevision, runs, simulations, healerRevision,
                 analyses,
                 heals, pendingActions, approveCalls, executed, auditLog, server, goals>>

\* log() reads the clock only for the timestamp: one tick is left
InitAudit ==
  /\ hitlMode \in {"autonomous", "copilot"}
  /\ now = (MaxClockSteps - 1) * ClockStepMs
  /\ events = <<>>
  /\ GateIdle
  /\ AlarmIdle
  /\ SupervisorIdle
  /\ SimulateIdle
  /\ chain = loadChain
  /\ tamperings = {}
  /\ PlannerIdle
  /\ FactoryIdle
  /\ CopilotIdle
  /\ ServerIdle
  /\ DeployIdle

NextAudit ==
  \/ AdvanceClock
  \/ \E e \in AuditEvents : log(e)
  \/ \E i \in 0..(MaxEntries - 1), f \in StoredFields : tamper(i, f)

SpecAudit == InitAudit /\ [][NextAudit]_vars

\* C18: after appends through log() alone verify() answers valid: every entry's
\* previousHash is the prior entry's hash, the first entry links to the genesis
\* value, and every stored hash equals the hash recomputed from the fields.
C18_AppendedChainVerifies ==
  tamperings = {} =>
    /\ verify(chain) = [valid |-> TRUE]
    /\ \A i \in 1..Len(chain) :
         /\ chain[i].previousHash = (IF i = 1 THEN Genesis ELSE chain[i - 1].hash)
         /\ chain[i].hash = calculateHash(chain[i])

C18_ThreeAppendsVerify ==
  /\ tamperings = {}
  /\ Len(chain) >= 3
  /\ verify(chain).valid

\* C19: mutating any one hashed field (timestamp, actor, resource, action,
\* result or previousHash) of the stored entry at any index i, index 0
\* included, makes verify() answer invalid with the failing index i.
C19_TamperDetectedAtIndex ==
  \A i \in 0..(Len(chain) - 1) :
    \A f \in {"timestamp", "actor", "resource", "action", "result", "previousHash"} :
      tamperings = {<< i, f >>} => verify(chain) = [valid |-> FALSE, tamperedAt |-> i]

\* the 0-based indices whose stored previousHash differs from the prior entry's
\* hash or whose recomputed hash differs from the stored hash
InconsistentAt(c) ==
  {i \in 0..(Len(c) - 1) :
     \/ (i > 0 /\ c[i + 1].previousHash # c[i].hash)
     \/ calculateHash(c[i + 1]) # c[i + 1].hash}

Smallest(S) == CHOOSE i \in S : \A j \in S : i <= j

\* C20: when several entries are inconsistent, verify() reports the smallest
\* index at which the previousHash link or the recomputed hash fails.
C20_ReportsSmallestIndex ==
  Cardinality(InconsistentAt(chain)) >= 2 =>
    verify(chain) = [valid |-> FALSE, tamperedAt |-> Smallest(InconsistentAt(chain))]

\* ------------------------------------------------------------------------
\* Claims about the logs
\* ------------------------------------------------------------------------
IsPrefix(a, b) == Len(a) <= Len(b) /\ SubSeq(b, 1, Len(a)) = a

\* C21: the audit log is append-only: no operation deletes, reorders or changes
\* a written entry, so the log before every operation is a prefix of the log
\* after it.
C21_LogIsAppendOnly ==
  [][IsPrefix(events, events') /\ IsPrefix(chain, chain')]_vars

\* the chain entries written for an incident
EntriesOf(incidentId) == {k \in 1..Len(chain) : chain[k].resource = incidentId}

C23_IncidentIdsUnique ==
  \A a, b \in 1..Len(alarms) :
    (a # b /\ alarms[a].incidentId # Undefined /\ alarms[b].incidentId # Undefined) =>
      alarms[a].incidentId # alarms[b].incidentId

\* the event that records how the flow of alarm a ended, with its reason
OutcomeRecorded(a) ==
  \/ /\ alarms[a].pc = "rejected"
     /\ \E k \in 1..Len(events) :
          events[k].source = "MonitorAgent" /\ events[k].type = "error"
  \/ /\ alarms[a].pc = "done"
     /\ alarms[a].remediation # NoRemediation
     /\ \E k \in 1..Len(events) :
          events[k].type = "healing.completed" /\ events[k].detail = alarms[a].remediation
  \/ /\ alarms[a].pc = "done"
     /\ alarms[a].remediation = NoRemediation
     /\ \E k \in 1..Len(events) :
          events[k].source = "ReasoningAgent" /\ events[k].type = "warning"

C25_OnlyRecoverableFailuresDegrade ==
  \A s \in 1..Len(simulations) :
    (simulations[s].pc = "responded" /\ simulations[s].adapter = "aws") =>
      /\ simulations[s].sendOutcome = "ResourceNotFoundException" =>
           simulations[s].result.status \in {"simulated_success", "at_max"}
      /\ simulations[s].sendOutcome = "AccessDeniedException" =>
           simulations[s].result.status = "failed"

\* C26: in autonomous mode requestApproval answers at once with an approved
\* decision marked automatic, whatever the incident id and plan, and leaves the
\* registry of pending requests as it was.
C26_AutonomousApprovesAtOnce ==
  [][(hitlMode = "autonomous" /\ Len(waiters') = Len(waiters) + 1) =>
       /\ waiters'[Len(waiters')].decision = AutoDecision
       /\ ~waiters'[Len(waiters')].interval
       /\ pendingApprovals' = pendingApprovals]_vars

C26_TwoAutomaticApprovals ==
  /\ hitlMode = "autonomous"
  /\ Len(waiters) = 2
  /\ waiters[1].incidentId # waiters[2].incidentId
  /\ \A w \in WaiterIds : waiters[w].decision = AutoDecision
  /\ pendingApprovals = [i \in Incidents |-> NoApproval]

\* C29: a pending request is resolved by the first decision applied to it: an
\* approve followed by a deny (or the reverse) before the waiter has looked
\* gives the waiter the decision of the first call.
C29_FirstDecisionWins ==
  \A w \in WaiterIds :
    (Resolved(w) /\ waiters[w].firstCall # "none") =>
      waiters[w].decision = IF waiters[w].firstCall = "approved"
                              THEN ApprovedDecision ELSE DeniedDecision

\* ------------------------------------------------------------------------
\* Shutdown of the process while approval requests are pending
\* ------------------------------------------------------------------------
\* process.on('SIGTERM', () => { server.close(() => process.exit(0)); }):
\* the server stops accepting connections
Sigterm ==
  /\ server = "listening"
  /\ server' = "closing"
  /\ UNCHANGED <<now, hitlMode, pendingApprovals, waiters, operatorCalls, events, alarms, healAgentRevision, runs, simulations, healerRevision,
                 chain, tamperings, analyses, heals, pendingActions, approveCalls, executed, auditLog, goals>>

\* the last connection has ended: the callback of server.close runs process.exit(0)
serverClosed ==
  /\ server = "closing"
  /\ server' = "exited"
  /\ UNCHANGED <<now, hitlMode, pendingApprovals, waiters, operatorCalls, events, alarms, healAgentRevision, runs, simulations, healerRevision,
                 chain, tamperings, analyses, heals, pendingActions, approveCalls, executed, auditLog, goals>>

\* nothing of the process runs after process.exit
NextGateShutdown ==
  \/ server # "exited" /\ \E i \in Incidents, p \in Plans : requestApproval(i, p)
  \/ server # "exited" /\ \E w \in WaiterIds : Poll(w)
  \/ server # "exited" /\ \E i \in Incidents : PostApprove(i)
  \/ server # "exited" /\ \E i \in Incidents : PostDeny(i)
  \/ Sigterm
  \/ serverClosed

SpecGateShutdown == InitGate /\ [][NextGateShutdown]_vars

\* C27: when the process shuts down (or a pending request is removed from the
\* registry), every caller waiting on a request is released with a timed-out
\* decision: no caller is left waiting when the process has ended.
C27_WaitersReleasedOnShutdown ==
  server = "exited" => \A w \in WaiterIds : waiters[w].decision.settled

\* ------------------------------------------------------------------------
\* AgentFactory and the provider heal agents
\* ------------------------------------------------------------------------
\* the provider argument of getHealAgent ("": absent or empty)
FactoryProviders == {"AWS", "aws", "GCP", "gcp", "Azure", "azure", "oracle", ""}

\* (provider || 'AWS').toUpperCase()
normalizedProvider(provider) ==
  IF provider \in {"AWS", "aws", ""} THEN "AWS"
  ELSE IF provider \in {"GCP", "gcp"} THEN "GCP"
  ELSE IF provider \in {"Azure", "azure"} THEN "AZURE"
  ELSE "ORACLE"

\* the agent is named by its getProvider(): this.provider of the class
getHealAgent_caseSensitive(provider) ==
  IF provider = "GCP" THEN "GCP"
  ELSE IF provider = "AZURE" THEN "Azure"
  ELSE "AWS"

getHealAgent(provider) ==
  IF normalizedProvider(provider) = "GCP" THEN "GCP"
  ELSE IF normalizedProvider(provider) = "AZURE" THEN "Azure"
  ELSE "AWS"

\* the keys of the playbook object of each agent's heal
LambdaConfigCommands == {"INCREASE_LAMBDA_TIMEOUT", "INCREASE_LAMBDA_MEMORY"}
agentPlaybook(agent) ==
  IF agent = "AWS"
    THEN {"RESTART_LAMBDA", "ROLLBACK_LAMBDA_VERSION", "LOG_ONLY", "SCALE_ECS_TASK",
          "RESTART_RDS_DB"} \cup LambdaConfigCommands
  ELSE IF agent = "GCP"
    THEN {"RESTART_FUNCTION", "INCREASE_FUNCTION_MEMORY", "INCREASE_FUNCTION_TIMEOUT",
          "RESTART_CLOUD_RUN", "SCALE_CLOUD_RUN", "LOG_ONLY"}
  ELSE {"RESTART_FUNCTION", "RESTART_APP_SERVICE", "SCALE_APP_SERVICE",
        "INCREASE_FUNCTION_MEMORY", "INCREASE_FUNCTION_TIMEOUT", "LOG_ONLY"}

HealCommands == agentPlaybook("AWS") \cup agentPlaybook("GCP") \cup agentPlaybook("Azure") \cup {"DROP_TABLE"}

\* Math.min(currentTimeout * 2, 900) / Math.min(currentMemory * 2, 10240)
TIMEOUT_LIMIT == 900
MEMORY_LIMIT == 10240

newValue_doubled(command, current) == current * 2

newValue(command, current) ==
  LET limit == IF command = "INCREASE_LAMBDA_TIMEOUT" THEN TIMEOUT_LIMIT ELSE MEMORY_LIMIT
  IN IF current * 2 <= limit THEN current * 2 ELSE limit

\* how GetFunctionConfigurationCommand settles: with a configuration (its
\* Timeout / MemorySize as value), or rejected with a named error
ConfigOutcomes ==
  [kind : {"config"},
   value : {0, 3, 128, 450, 451, 900, 1024, 5120, 5121, 10240, 10241}] \cup
  [kind : {"error"}, name : {"ResourceNotFoundException", "AccessDeniedException"}]

NoHealResult == [success |-> FALSE, status |-> "none"]
HealResult(status) == [success |-> TRUE, status |-> status]

\* AgentFactory.getHealAgent(provider).heal({remediation_command: command, ...})
\* up to the first await of the handler
agentHeal(provider, command) ==
  /\ Len(heals) < MaxHeals
  /\ LET agent == getHealAgent(provider)
         call == [provider |-> provider, agent |-> agent, command |-> command,
                  pc |-> "returned", outcome |-> "none", result |-> NoHealResult,
                  current |-> 0, written |-> 0]
     IN heals' = Append(heals,
          IF command \notin agentPlaybook(agent)
            THEN [call EXCEPT !.pc = "thrown", !.outcome = "Unknown remediation command"]
          ELSE IF agent = "AWS" /\ command = "RESTART_LAMBDA"
            THEN [call EXCEPT !.pc = "sending"]
          ELSE IF agent = "AWS" /\ command \in LambdaConfigCommands
            THEN [call EXCEPT !.pc = "getting"]
          ELSE IF agent # "AWS" /\ command # "LOG_ONLY"
            THEN [call EXCEPT !.pc = "delaying"]
          ELSE [call EXCEPT !.result =
                  HealResult(IF command = "LOG_ONLY" THEN "logged" ELSE "stubbed")])
  /\ UNCHANGED <<now, hitlMode, pendingApprovals, waiters, operatorCalls, events, alarms, healAgentRevision, runs, simulations, healerRevision,
                 chain, tamperings, analyses, pendingActions, approveCalls, executed, auditLog, server, goals>>

\* await this.lambdaClient.send(getCmd) settles (increaseLambdaTimeout / Memory)
configSettled(h, outcome) ==
  /\ heals[h].pc = "getting"
  /\ heals' = [heals EXCEPT ![h] =
       IF outcome.kind = "config"
         THEN LET current == \* config.Timeout || 3 / config.MemorySize || 128
                    IF outcome.value # 0 THEN outcome.value
                    ELSE IF heals[h].command = "INCREASE_LAMBDA_TIMEOUT" THEN 3 ELSE 128
                  new == newValue(heals[h].command, current)
              IN IF new = current
                   THEN [@ EXCEPT !.pc = "returned", !.outcome = "at_max", !.current = current,
                                  !.result = HealResult("at_max")]
                   ELSE [@ EXCEPT !.pc = "sending", !.current = current, !.written = new]
       ELSE IF outcome.name = "ResourceNotFoundException"
         THEN [@ EXCEPT !.pc = "returned", !.outcome = outcome.name,
                        !.result = HealResult("not_found")]
       ELSE [@ EXCEPT !.pc = "thrown", !.outcome = outcome.name]]
  /\ UNCHANGED <<now, hitlMode, pendingApprovals, waiters, operatorCalls, events, alarms, healAgentRevision, runs, simulations, healerRevision,
                 chain, tamperings, analyses, pendingActions, approveCalls, executed, auditLog, server, goals>>

\* await this.lambdaClient.send(UpdateFunctionConfigurationCommand) settles
\* (restartLambda, and the update of increaseLambdaTimeout / Memory)
updateSettled(h, outcome) ==
  /\ heals[h].pc = "sending"
  /\ heals' = [heals EXCEPT ![h] =
       IF outcome = "ok"
         THEN [@ EXCEPT !.pc = "returned", !.outcome = outcome, !.result = HealResult("updated")]
       ELSE IF outcome = "ResourceNotFoundException"
         THEN [@ EXCEPT !.pc = "returned", !.outcome = outcome,
                        !.result = HealResult("not_found")]
       ELSE [@ EXCEPT !.pc = "thrown", !.outcome = outcome]]
  /\ UNCHANGED <<now, hitlMode, pendingApprovals, waiters, operatorCalls, events, alarms, healAgentRevision, runs, simulations, healerRevision,
                 chain, tamperings, analyses, pendingActions, approveCalls, executed, auditLog, server, goals>>

\* await new Promise(r => setTimeout(r, ...)) of the GCP and Azure handlers
delayElapsed(h) ==
  /\ heals[h].pc = "delaying"
  /\ heals' = [heals EXCEPT ![h] = [@ EXCEPT !.pc = "returned", !.result = HealResult("simulated")]]
  /\ UNCHANGED <<now, hitlMode, pendingApprovals, waiters, operatorCalls, events, alarms, healAgentRevision, runs, simulations, healerRevision,
                 chain, tamperings, analyses, pendingActions, approveCalls, executed, auditLog, server, goals>>

InitFactory ==
  /\ hitlMode = "autonomous"
  /\ now = 0
  /\ events = <<>>
  /\ GateIdle
  /\ AlarmIdle
  /\ SupervisorIdle
  /\ SimulateIdle
  /\ AuditIdle
  /\ PlannerIdle
  /\ FactoryIdle
  /\ CopilotIdle
  /\ ServerIdle
  /\ DeployIdle

NextFactory ==
  \/ \E provider \in FactoryProviders, command \in HealCommands : agentHeal(provider, command)
  \/ \E h \in 1..Len(heals), outcome \in ConfigOutcomes : configSettled(h, outcome)
  \/ \E h \in 1..Len(heals), outcome \in SendOutcomes : updateSettled(h, outcome)
  \/ \E h \in 1..Len(heals) : delayElapsed(h)

SpecFactory == InitFactory /\ [][NextFactory]_vars

\* a heal call the claim covers, once it has settled
SettledPlaybookHeal(h) ==
  /\ heals[h].provider \in {"AWS", "aws", "GCP", "gcp", "Azure", "azure"}
  /\ heals[h].command \in agentPlaybook(heals[h].agent)
  /\ heals[h].pc \in {"returned", "thrown"}

\* C28: getHealAgent(provider) answers, for AWS, GCP and Azure in any letter
\* case, an agent whose getProvider() names that provider, and heal with a
\* command of that agent's playbook returns a result with success true.
C28_PlaybookHealSucceeds ==
  \A h \in 1..Len(heals) : SettledPlaybookHeal(h) =>
    /\ normalizedProvider(heals[h].agent) = normalizedProvider(heals[h].provider)
    /\ heals[h].pc = "returned"
    /\ heals[h].result.success

\* C28 (amended): as above, except that a Lambda command of the AWS agent
\* whose SDK call fails with an error other than ResourceNotFoundException
\* rejects with that error and returns no result.
C28_PlaybookHealSucceedsUnlessFault ==
  \A h \in 1..Len(heals) : SettledPlaybookHeal(h) =>
    /\ normalizedProvider(heals[h].agent) = normalizedProvider(heals[h].provider)
    /\ IF heals[h].outcome = "AccessDeniedException"
         THEN /\ heals[h].pc = "thrown"
              /\ heals[h].agent = "AWS"
              /\ heals[h].command \in LambdaConfigCommands \cup {"RESTART_LAMBDA"}
         ELSE heals[h].pc = "returned" /\ heals[h].result.success

C28_LowerCaseAzureHealed ==
  \E h \in 1..Len(heals) :
    /\ heals[h].provider = "azure"
    /\ heals[h].agent = "Azure"
    /\ heals[h].command = "RESTART_FUNCTION"
    /\ heals[h].pc = "returned"
    /\ heals[h].result.success

\* ------------------------------------------------------------------------
\* Copilot revision with stored pending actions (handlers/reasoningAgent.js)
\* ------------------------------------------------------------------------
ApproveActions == {"approve", "reject"}

\* analyzeIncident(alarmData, mode) once the model's reply has been parsed:
\* in copilot mode the decision is stored, in autonomous mode only returned
decisionParsed(incidentId, decision, mode) ==
  /\ mode = "copilot"
  /\ pendingActions' = [pendingActions EXCEPT ![incidentId] =
         [decision |-> decision, timestamp |-> now, status |-> "awaiting_approval"]]
  /\ executed' = [executed EXCEPT ![incidentId] = 0]
  /\ UNCHANGED <<now, hitlMode, pendingApprovals, waiters, operatorCalls, events, alarms, healAgentRevision, runs, simulations, healerRevision,
                 chain, tamperings, analyses, heals, approveCalls, auditLog, server, goals>>

\* app.post('/approve/:incidentId') up to its await: with action 'approve'
\* it reads pendingAction.decision (a TypeError when nothing is stored) and
\* calls healAgent.execute; any other action deletes the entry and answers
approveRequested(incidentId, action) ==
  /\ Len(approveCalls) < MaxApproves
  /\ LET pendingAction == pendingActions[incidentId]
         call == [incidentId |-> incidentId, action |-> action, pc |-> "responded",
                  error |-> "none"]
     IN IF action = "approve"
          THEN IF pendingAction = NoPendingAction
                 THEN /\ approveCalls' = Append(approveCalls,
                            [call EXCEPT !.pc = "thrown", !.error = "TypeError"])
                      /\ UNCHANGED <<pendingActions, executed>>
                 ELSE /\ approveCalls' = Append(approveCalls, [call EXCEPT !.pc = "executing"])
                      /\ executed' = [executed EXCEPT ![incidentId] = @ + 1]
                      /\ UNCHANGED pendingActions
          ELSE /\ approveCalls' = Append(approveCalls, call)
               /\ pendingActions' = [pendingActions EXCEPT ![incidentId] = NoPendingAction]
               /\ UNCHANGED executed
  /\ UNCHANGED <<now, hitlMode, pendingApprovals, waiters, operatorCalls, events, alarms, healAgentRevision, runs, simulations, healerRevision,
                 chain, tamperings, analyses, heals, auditLog, server, goals>>

\* healAgent.execute settles: fulfilled, the approval is logged, the entry
\* deleted and the request answered; rejected, the handler stops there
executeSettled(c, fulfilled) ==
  /\ approveCalls[c].pc = "executing"
  /\ IF fulfilled
       THEN /\ auditLog' = Append(auditLog,
                  [incidentId |-> approveCalls[c].incidentId, action |-> "human_approved"])
            /\ pendingActions' = [pendingActions EXCEPT
                                    ![approveCalls[c].incidentId] = NoPendingAction]
            /\ approveCalls' = [approveCalls EXCEPT ![c].pc = "responded"]
       ELSE /\ approveCalls' = [approveCalls EXCEPT ![c].pc = "thrown", ![c].error = "execute"]
            /\ UNCHANGED <<pendingActions, auditLog>>
  /\ UNCHANGED <<now, hitlMode, pendingApprovals, waiters, operatorCalls, events, alarms, healAgentRevision, runs, simulations, healerRevision,
                 chain, tamperings, analyses, heals, executed, server, goals>>

InitCopilot ==
  /\ hitlMode = "copilot"
  /\ now = 0
  /\ events = <<>>
  /\ GateIdle
  /\ AlarmIdle
  /\ SupervisorIdle
  /\ SimulateIdle
  /\ AuditIdle
  /\ PlannerIdle
  /\ FactoryIdle
  /\ CopilotIdle
  /\ ServerIdle
  /\ DeployIdle

NextCopilot ==
  \/ \E i \in Incidents, d \in Plans, mode \in {"autonomous", "copilot"} :
        decisionParsed(i, d, mode)
  \/ \E i \in Incidents, action \in ApproveActions : approveRequested(i, action)
  \/ \E c \in 1..Len(approveCalls), fulfilled \in BOOLEAN : executeSettled(c, fulfilled)

SpecCopilot == InitCopilot /\ [][NextCopilot]_vars

\* C30: a stored decision is executed at most once per incident, also when two
\* approve calls for the incident interleave, and an approve for an incident
\* with no stored pending action executes nothing and raises no error.
C30_StoredDecisionExecutedOnce ==
  /\ \A i \in Incidents : executed[i] <= 1
  /\ \A c \in 1..Len(approveCalls) : approveCalls[c].error # "TypeError"

\* ------------------------------------------------------------------------
\* Approval gate in copilot mode, with a clock that advances and poll timers
\* that keep firing
\* ------------------------------------------------------------------------
InitGateLive ==
  /\ InitGate
  /\ hitlMode = "copilot"

\* The clock of the model ends: a request is issued only while its window can
\* still elapse before that. The operator answers at most once, at any moment,
\* for any incident id; a waiter nobody answers is left to its timeout.
NextGateLive ==
  \/ AdvanceClock
  \/ /\ now + APPROVAL_TIMEOUT_MS < MaxClockSteps * ClockStepMs
     /\ \E i \in Incidents, p \in Plans : requestApproval(i, p)
  \/ \E w \in WaiterIds : Poll(w)
  \/ operatorCalls = 0 /\ \E i \in Incidents : PostApprove(i)
  \/ operatorCalls = 0 /\ \E i \in Incidents : PostDeny(i)

\* setInterval(..., 1000) fires until clearInterval; Date.now() advances
SpecGateLive ==
  /\ InitGateLive
  /\ [][NextGateLive]_vars
  /\ WF_vars(AdvanceClock)
  /\ WF_vars(\E w \in WaiterIds : Poll(w))

\* C31: every requestApproval made in copilot mode eventually resolves
\* (approved, denied or timed out), also when a second request for the same
\* incident id is issued while the first caller still waits.
C31_EveryRequestResolves ==
  []<>(\A w \in WaiterIds : Resolved(w))

C31_BothCallersOfOneIncidentResolved ==
  /\ Len(waiters) = 2
  /\ waiters[1].incidentId = waiters[2].incidentId
  /\ waiters[1].created < waiters[2].created
  /\ Resolved(1) /\ Resolved(2)
  /\ waiters[1].decision = TimeoutDecision

\* C32: every action name the planning step can return (the default plan,
\* the value substituted for a missing action, the emergency plan) is accepted
\* by the dispatcher: healing a planner-produced plan never fails as an
\* unknown or unimplemented action.
C32_PlannedActionsDispatchable ==
  \A s \in 1..Len(simulations) :
    Dispatched(s) =>
      \A k \in 1..Len(events) :
        events[k].type = "healing.failed" =>
          events[k].detail \notin {"Unknown action", "Not Implemented"}

\* C33: every healing.initiated event is followed, before heal returns or
\* throws, by exactly one healing.success or healing.failed event of the same
\* call, whatever the provider and the action.
C33_InitiatedThenOneOutcome ==
  LET opened == {k \in 1..Len(events) : events[k].type = "healing.initiated"}
      closed == {k \in 1..Len(events) :
                   events[k].type \in {"healing.success", "healing.failed"}}
  IN (\A s \in 1..Len(simulations) : simulations[s].pc # "healing") =>
       \A k \in opened :
         LET later == {j \in opened : j > k}
             next == IF later = {} THEN Len(events) + 1
                     ELSE CHOOSE j \in later : \A i \in later : j <= i
         IN Cardinality({j \in closed : k < j /\ j < next}) = 1

\* the event types a run of the supervisor loop emits, in order
TypesOf(emitted) == [k \in 1..Len(emitted) |-> emitted[k].type]
FirstTryTypes ==
  << "healing.started", "healing.step", "healing.verification", "healing.completed" >>
CorrectedTypes ==
  << "healing.started", "healing.step", "healing.verification", "healing.correction",
     "healing.step", "healing.completed" >>

\* C34: a run of the supervisor loop whose primary command is in the playbook
\* emits healing.started, healing.step, healing.verification, then optionally
\* healing.correction and a second healing.step, and ends with exactly one
\* healing.completed whose actionsExecuted are the actions executed, in order.
C34_RunEventsInOrder ==
  \A r \in 1..Len(runs) :
    runs[r].remediation_command \in playbook =>
      LET types == TypesOf(runs[r].emitted)
      IN /\ IsPrefix(types, FirstTryTypes) \/ IsPrefix(types, CorrectedTypes)
         /\ runs[r].pc = "done" =>
              /\ types \in {FirstTryTypes, CorrectedTypes}
              /\ Recorded(runs[r]) = CommandsOf(runs[r].dispatched)
         /\ runs[r].pc # "done" =>
              \A k \in 1..Len(types) : types[k] # "healing.completed"

C34_CorrectedRunCompleted ==
  \E r \in 1..Len(runs) :
    /\ runs[r].pc = "done"
    /\ TypesOf(runs[r].emitted) = CorrectedTypes
    /\ Recorded(runs[r]) = << runs[r].remediation_command, planB >>

\* C35: the fallback planner is deterministic with a fixed priority: for a name
\* matching several categories the timeout rule wins over the error/failure
\* rule, which wins over the memory rule; the same alarm name always yields the
\* same plan, whatever made the agent call fail, and the plan is one of four.
C35_FallbackDeterministicByPriority ==
  /\ \A j, k \in FallbackAnswers :
       analyses[j].alarmData.AlarmName = analyses[k].alarmData.AlarmName =>
         analyses[j].result.remediation_plan = analyses[k].result.remediation_plan
  /\ \A k \in FallbackAnswers :
       LET name == analyses[k].alarmData.AlarmName
           plan == analyses[k].result.remediation_plan
           timeout == includes(name, "Timeout")
           failure == includes(name, "Error") \/ includes(name, "Failure")
           memory == includes(name, "Memory")
       IN /\ plan \in {"INCREASE_LAMBDA_TIMEOUT", "RESTART_LAMBDA",
                      "INCREASE_LAMBDA_MEMORY", "LOG_ONLY"}
          /\ (timeout /\ (failure \/ memory)) => plan = "INCREASE_LAMBDA_TIMEOUT"
          /\ (failure /\ memory /\ ~timeout) => plan = "RESTART_LAMBDA"

C35_SameNameSamePlanAfterDifferentFailures ==
  /\ Len(analyses) = 2
  /\ FallbackAnswers = {1, 2}
  /\ analyses[1].alarmData.AlarmName = <<"Memory", "Failure">>
  /\ analyses[2].alarmData.AlarmName = <<"Memory", "Failure">>
  /\ analyses[1].result.root_cause_analysis # analyses[2].result.root_cause_analysis
  /\ analyses[1].result.remediation_plan = "RESTART_LAMBDA"
  /\ analyses[2].result.remediation_plan = "RESTART_LAMBDA"

\* C36: the timeout and memory increases are bounded: the value written is
\* min(2 x current, limit) with limit 900 s / 10240 MB, never above the limit,
\* never below the current value when that is at most the limit; a current
\* value equal to the limit returns at_max and issues no update.
C36_IncreaseBoundedByLimit ==
  \A h \in 1..Len(heals) :
    (heals[h].command \in LambdaConfigCommands /\ heals[h].current # 0) =>
      LET limit == IF heals[h].command = "INCREASE_LAMBDA_TIMEOUT" THEN 900 ELSE 10240
          current == heals[h].current
          written == heals[h].written
      IN /\ written # 0 =>
              /\ written = (IF 2 * current <= limit THEN 2 * current ELSE limit)
              /\ written <= limit
              /\ current <= limit => written >= current
         /\ current = limit =>
              /\ written = 0
              /\ heals[h].pc = "returned"
              /\ heals[h].result = HealResult("at_max")

C36_TimeoutClampedToLimit ==
  \E h \in 1..Len(heals) :
    /\ heals[h].command = "INCREASE_LAMBDA_TIMEOUT"
    /\ heals[h].current = 451
    /\ heals[h].written = 900
    /\ heals[h].pc = "returned"
    /\ heals[h].result = HealResult("updated")

\* ------------------------------------------------------------------------
\* The event log at its capacity
\* ------------------------------------------------------------------------
\* the detail of the newest entry: the number of pushEvent calls so far
pushCount == IF events = <<>> THEN 0 ELSE events[Len(events)].detail

\* pushEvent({ source, type, detail }) called by any handler
pushEventCalled(source, type) ==
  /\ pushCount < EVENTS_MAX - 1 + MaxPushes
  /\ events' = pushEvent(events, Event(source, type, pushCount + 1))
  /\ UNCHANGED <<now, hitlMode, pendingApprovals, waiters, operatorCalls, alarms, healAgentRevision, runs, simulations, healerRevision,
                 chain, tamperings, analyses, heals, pendingActions, approveCalls, executed, auditLog, server, goals>>

\* the log after EVENTS_MAX - 1 calls of pushEvent, the k-th with detail k
InitEvents ==
  /\ hitlMode = "autonomous"
  /\ now = 0
  /\ events = [k \in 1..(EVENTS_MAX - 1) |-> Event("System", "system.info", k)]
  /\ GateIdle
  /\ AlarmIdle
  /\ SupervisorIdle
  /\ SimulateIdle
  /\ AuditIdle
  /\ PlannerIdle
  /\ FactoryIdle
  /\ CopilotIdle
  /\ ServerIdle
  /\ DeployIdle

NextEvents ==
  \E type \in {"alarm.received", "analysis.completed", "healing.started",
               "healing.completed", "error"} : pushEventCalled("System", type)

SpecEvents == InitEvents /\ [][NextEvents]_vars

\* C37: after a pushEvent the log holds at most EVENTS_MAX entries; when the
\* bound is exceeded exactly the oldest entry is evicted and the others keep
\* their append order, the new entry last.
C37_LogBoundedOldestEvicted ==
  [][LET newest == events'[Len(events')]
     IN /\ Len(events') <= EVENTS_MAX
        /\ newest.detail = pushCount + 1
        /\ events' = IF Len(events) < EVENTS_MAX THEN Append(events, newest)
                      ELSE Append(Tail(events), newest)]_vars

C37_TwoOldestEvicted ==
  /\ Len(events) = EVENTS_MAX
  /\ events[1].detail = 3
  /\ events[Len(events)].detail = EVENTS_MAX + 2

\* ------------------------------------------------------------------------
\* Orchestrator: handleGoal and DeployAgent.run
\* ------------------------------------------------------------------------
\* The goal text of POST /goal, as its words; a keyword is searched for as one
\* of the words.
GoalTexts == {<<"AWS", "rollout">>, <<"deploy", "stack">>, <<"hello", "world">>, <<>>}

\* validateGoal(goal).valid: revision 1 wants a keyword in goal.toLowerCase(), revision 2 accepts every goal that is not empty
validateGoal(revision, goal) ==
  LET validKeywords == {"deploy", "aws", "lambda", "cloudwatch", "stack",
                        "infrastructure", "instance", "cluster"}
  IN IF revision = 1
     THEN \E k \in 1..Len(goal) : toLowerCase(goal[k]) \in validKeywords
     ELSE goal # <<>>

\* parsePlan(goal).steps, by their action
parsePlan(revision) ==
  IF revision = 1
  THEN <<"PROVISION", "CONFIGURE", "INTEGRATE", "VALIDATE", "DEPLOY">>
  ELSE <<"PROVISION", "IAM", "CONFIGURE", "DEPLOY", "OBSERVE">>

\* the report DeployAgent.run returns after deploy.completed: revision 2 adds
\* success: true to it
report(revision) ==
  IF revision = 1 THEN [status |-> "success"]
  ELSE [status |-> "success", success |-> TRUE]

\* pushEvent for each <<source, type>> of evs in order, all with the detail g
RECURSIVE pushEach(_, _, _)
pushEach(bus, evs, g) ==
  IF evs = <<>> THEN bus
  ELSE pushEach(pushEvent(bus, Event(evs[1][1], evs[1][2], g)), Tail(evs), g)

\* what handleGoal pushes once deployer.run(goalText) has settled with result
\* (NoReport for the rejection and the failure object), and what it returns:
\* if (!result || !result.success) throws into the catch
NoReport == [success |-> FALSE]
goalSettled(result) ==
  IF "success" \in DOMAIN result /\ result.success
  THEN [emitted |-> << <<"MonitorAgent", "monitor.started">>,
                       <<"Orchestrator", "plan.complete">> >>,
        status |-> "ok"]
  ELSE [emitted |-> << <<"Orchestrator", "plan.failed">> >>, status |-> "failed"]

\* POST /goal: handleGoal(goal, ctx) up to the first timer it waits on. The
\* module handlers/deployAgent.js is loaded once: every call runs the revision
\* the first call ran.
handleGoalCalled(goal, revision) ==
  /\ Len(goals) < MaxGoals
  /\ goals # <<>> => revision = goals[1].revision
  /\ LET g == Len(goals) + 1
         started == << <<"Orchestrator", "plan.start">>, <<"DeployAgent", "deploy.started">> >>
     IN IF validateGoal(revision, goal)
        THEN /\ events' = pushEach(events,
                            started \o << <<"DeployAgent", "deploy.validation">>,
                                          <<"DeployAgent", "deploy.plan">>,
                                          <<"DeployAgent", "deploy.step">> >>, g)
             /\ goals' = Append(goals, [goal |-> goal, revision |-> revision,
                                        pc |-> "executing", i |-> 1, status |-> "pending"])
        ELSE /\ events' = pushEach(events,
                            started \o << <<"DeployAgent", "deploy.failed">> >>
                                    \o goalSettled(NoReport).emitted, g)
             /\ goals' = Append(goals, [goal |-> goal, revision |-> revision,
                                        pc |-> "returned", i |-> 0,
                                        status |-> goalSettled(NoReport).status])
  /\ UNCHANGED <<now, hitlMode, pendingApprovals, waiters, operatorCalls, alarms, healAgentRevision, runs, simulations, healerRevision,
                 chain, tamperings, analyses, heals, pendingActions, approveCalls, executed, auditLog, server>>

\* the rest of DeployAgent.run and of handleGoal once step i is behind: the
\* next deploy.step, or verification, report and the return of handleGoal
afterStep(g) ==
  LET d == goals[g]
      steps == parsePlan(d.revision)
  IN IF d.i < Len(steps)
     THEN /\ events' = pushEach(events, << <<"DeployAgent", "deploy.step">> >>, g)
          /\ goals' = [goals EXCEPT ![g].pc = "executing", ![g].i = d.i + 1]
     ELSE LET settled == goalSettled(report(d.revision))
          IN /\ events' = pushEach(events,
                            << <<"DeployAgent", "deploy.verification">>,
                               <<"DeployAgent", "deploy.completed">> >> \o settled.emitted, g)
             /\ goals' = [goals EXCEPT ![g].pc = "returned", ![g].status = settled.status]

\* await this.executeStep(step) resolves: revision 1 then waits 200 ms
stepSettled(g) ==
  /\ goals[g].pc = "executing"
  /\ IF goals[g].revision = 1
     THEN /\ goals' = [goals EXCEPT ![g].pc = "delaying"]
          /\ UNCHANGED events
     ELSE afterStep(g)
  /\ UNCHANGED <<now, hitlMode, pendingApprovals, waiters, operatorCalls, alarms, healAgentRevision, runs, simulations, healerRevision,
                 chain, tamperings, analyses, heals, pendingActions, approveCalls, executed, auditLog, server>>

\* await new Promise(resolve => setTimeout(resolve, 200)) resolves
stepDelayElapsed(g) ==
  /\ goals[g].pc = "delaying"
  /\ afterStep(g)
  /\ UNCHANGED <<now, hitlMode, pendingApprovals, waiters, operatorCalls, alarms, healAgentRevision, runs, simulations, healerRevision,
                 chain, tamperings, analyses, heals, pendingActions, approveCalls, executed, auditLog, server>>

InitDeploy ==
  /\ hitlMode = "autonomous"
  /\ now = 0
  /\ events = <<>>
  /\ GateIdle
  /\ AlarmIdle
  /\ SupervisorIdle
  /\ SimulateIdle
  /\ AuditIdle
  /\ PlannerIdle
  /\ FactoryIdle
  /\ CopilotIdle
  /\ ServerIdle
  /\ DeployIdle

NextDeploy ==
  \/ \E goal \in GoalTexts, revision \in {1, 2} : handleGoalCalled(goal, revision)
  \/ \E g \in 1..MaxGoals : g <= Len(goals) /\ stepSettled(g)
  \/ \E g \in 1..MaxGoals : g <= Len(goals) /\ stepDelayElapsed(g)

SpecDeploy == InitDeploy /\ [][NextDeploy]_vars

\* C38: every call of handleGoal pushes plan.start first, pushes exactly one of
\* plan.complete and plan.failed by the time it returns (and none before),
\* returns status "ok" exactly when DeployAgent.run completed all of its steps
\* and its verification (deploy.completed pushed, deploy.failed not), and
\* returns status "failed" otherwise.
C38_GoalOkIffRunCompleted ==
  \A g \in 1..Len(goals) :
    LET types == TypesOf(SelectSeq(events, LAMBDA e : e.detail = g))
        outcomes == {k \in 1..Len(types) : types[k] \in {"plan.complete", "plan.failed"}}
        runCompleted == /\ \E k \in 1..Len(types) : types[k] = "deploy.completed"
                        /\ \A k \in 1..Len(types) : types[k] # "deploy.failed"
    IN /\ types[1] = "plan.start"
       /\ Cardinality(outcomes) = (IF goals[g].pc = "returned" THEN 1 ELSE 0)
       /\ goals[g].pc = "returned" =>
            /\ goals[g].status \in {"ok", "failed"}
            /\ goals[g].status = "ok" <=> runCompleted
====
